---- MODULE Spec2Model ----
(***************************************************************************)
(* Wayang knowledge graph: the graph store of src/graph_builder.py         *)
(* (class KnowledgeGraph) and the relation resolver of                     *)
(* src/relation_extraction.py (class RelationExtractor).                   *)
(*                                                                         *)
(* A Python str is a sequence of one-character strings, so that strip(),   *)
(* lower(), len() and the substring test are computed, not assumed.        *)
(* A confidence is kept in hundredths (0.8 is 80).                         *)
(***************************************************************************)
EXTENDS Integers, Sequences, FiniteSets, TLC

VARIABLES graph, entity_metadata, relation_metadata, entity_calls, relation_calls,
          entities, matches, doc_text, relations, pattern_relations, dedup_input, pc,
          json_file, exported, file_calls, subgraph, subgraph_calls, shared_relations, shared_metadata,
          returned, builder, threads, serialized, df, loop, merged, completed, running

vars == <<graph, entity_metadata, relation_metadata, entity_calls, relation_calls,
          entities, matches, doc_text, relations, pattern_relations, dedup_input, pc,
          json_file, exported, file_calls, subgraph, subgraph_calls, shared_relations, shared_metadata,
          returned, builder, threads, serialized, df, loop, merged, completed, running>>

graphVars == <<graph, entity_metadata, relation_metadata, entity_calls, relation_calls>>

resolverVars ==
    <<entities, matches, doc_text, relations, pattern_relations, dedup_input, pc>>

\* the exported file, the KnowledgeGraph get_subgraph returned with the list
\* objects it shares with the source, and what the last call returned
fileVars == <<json_file, exported, file_calls>>

subgraphVars == <<subgraph, subgraph_calls, shared_relations, shared_metadata>>

\* the callers that share the KnowledgeGraph: where each is in its
\* add_entity call, and whether the calls are serialized
threadVars == <<threads, serialized>>

\* the data frame of documents, where build_from_dataframe is in it, the
\* documents whose items were merged so far, in merge order, the stages of
\* the WayangPipeline that completed, in order, and the stage
\* run_full_pipeline is about to call (0 when it is not running)
batchVars == <<df, loop, merged, completed, running>>

\* a KnowledgeGraphBuilder, the callers and the batch
componentVars == <<builder, threadVars, batchVars>>

(***************************************************************************)
(* Bounds of the model.                                                    *)
(***************************************************************************)
\* public calls (add_entity, add_relation) made on one KnowledgeGraph
MaxCalls == 3

\* to_json and from_json calls made on one KnowledgeGraph
MaxFileCalls == 2

\* add_entity and add_relation calls made on a graph get_subgraph returned
MaxSubgraphCalls == 1

\* entities of one document handed to the resolver
MaxEntities == 2

\* pattern matches found in one document
MaxMatches == 2

\* callers that share one KnowledgeGraph
MaxThreads == 2

\* documents (rows) of one data frame
MaxDocuments == 2

\* entities of one long document, whose coverage by relations is measured
MaxDocEntities == 10

(***************************************************************************)
(* Python str operations.                                                  *)
(***************************************************************************)
Whitespace == {" "}

\* str.lower() on one character
LowerChar(c) ==
    CASE c = "A" -> "a"
      [] c = "K" -> "k"
      [] c = "P" -> "p"
      [] OTHER -> c

\* str.lower()
Lower(s) == [i \in 1..Len(s) |-> LowerChar(s[i])]

RECURSIVE LStrip(_)
LStrip(s) ==
    IF s # <<>> /\ Head(s) \in Whitespace THEN LStrip(Tail(s)) ELSE s

RECURSIVE RStrip(_)
RStrip(s) ==
    IF s # <<>> /\ s[Len(s)] \in Whitespace
    THEN RStrip(SubSeq(s, 1, Len(s) - 1))
    ELSE s

\* str.strip(): leading and trailing whitespace removed
Strip(s) == RStrip(LStrip(s))

\* the Python test  a in b  on two str
IsSubstring(a, b) ==
    \E i \in 0..(Len(b) - Len(a)) : SubSeq(b, i + 1, i + Len(a)) = a

RECURSIVE ConcatAll(_)
\* the lists of the list ss joined, in order
ConcatAll(ss) == IF ss = <<>> THEN <<>> ELSE Head(ss) \o ConcatAll(Tail(ss))

\* the sequences over S of length up to n
SeqsUpTo(S, n) == UNION {[1..k -> S] : k \in 0..n}

(***************************************************************************)
(* networkx.DiGraph as KnowledgeGraph uses it: nodes in insertion order    *)
(* with the attributes type and count, at most one edge per ordered pair   *)
(* with the attributes relations, count and confidence.                    *)
(***************************************************************************)
EmptyGraph == [nodes |-> <<>>, edges |-> <<>>]

NodeIds(g) == {g.nodes[i].id : i \in 1..Len(g.nodes)}

has_node(g, n) == n \in NodeIds(g)

NodeIndex(g, n) == CHOOSE i \in 1..Len(g.nodes) : g.nodes[i].id = n

NodeOf(g, n) == g.nodes[NodeIndex(g, n)]

has_edge(g, u, v) ==
    \E i \in 1..Len(g.edges) : g.edges[i].source = u /\ g.edges[i].target = v

EdgeIndex(g, u, v) ==
    CHOOSE i \in 1..Len(g.edges) : g.edges[i].source = u /\ g.edges[i].target = v

EdgeOf(g, u, v) == g.edges[EdgeIndex(g, u, v)]

SeqContains(s, x) == \E i \in 1..Len(s) : s[i] = x

RECURSIVE FirstSeen(_, _)
\* the distinct elements of s in the order of their first occurrence, after acc
FirstSeen(acc, s) ==
    IF s = <<>> THEN acc
    ELSE FirstSeen(IF SeqContains(acc, Head(s)) THEN acc ELSE Append(acc, Head(s)),
                   Tail(s))

\* entity_metadata / relation_metadata: dict of lists; a missing key reads as []
DictGet(d, k) == IF k \in DOMAIN d THEN d[k] ELSE <<>>

DictAppend(d, k, x) ==
    [j \in (DOMAIN d) \cup {k} |-> IF j = k THEN Append(DictGet(d, k), x) ELSE d[j]]

EmptyDict == [j \in {} |-> <<>>]

Truthy(metadata) == metadata # "None"

(***************************************************************************)
(* KnowledgeGraph.add_entity, as a function of the object's fields.        *)
(***************************************************************************)
\* AddEntityGraph with the count of an existing node left as it is
AddEntityGraph_NoIncrement(g, entity_name, entity_type) ==
    IF has_node(g, entity_name)
    THEN [g EXCEPT !.nodes[NodeIndex(g, entity_name)].type = entity_type]
    ELSE [g EXCEPT !.nodes = Append(g.nodes,
                        [id |-> entity_name, type |-> entity_type, count |-> 1])]

AddEntityGraph(g, entity_name, entity_type) ==
    IF has_node(g, entity_name)
    THEN LET i == NodeIndex(g, entity_name)
         IN  [g EXCEPT !.nodes[i].type = entity_type,
                       !.nodes[i].count = g.nodes[i].count + 1]
    ELSE [g EXCEPT !.nodes = Append(g.nodes,
                        [id |-> entity_name, type |-> entity_type, count |-> 1])]

AddEntityMetadata(md, entity_name, metadata) ==
    IF Truthy(metadata) THEN DictAppend(md, entity_name, metadata) ELSE md

(***************************************************************************)
(* KnowledgeGraph.add_relation, as a function of the object's fields.      *)
(* subject and obj are the names after strip().                            *)
(***************************************************************************)
\* lines 88-92: a missing endpoint is added through add_entity(x, 'UNKNOWN')
\* EnsureNode without the has_node test and the add_entity call
EnsureNode_Skip(g, n) == g

EnsureNode(g, n) == IF has_node(g, n) THEN g ELSE AddEntityGraph(g, n, "UNKNOWN")

EnsureNodes(g, subject, obj) == EnsureNode(EnsureNode(g, subject), obj)

\* AddEdgeGraph without the test  relation_type not in existing_relations
AddEdgeGraph_AlwaysAppend(g, subject, relation_type, obj, confidence) ==
    IF has_edge(g, subject, obj)
    THEN LET i == EdgeIndex(g, subject, obj)
         IN  [g EXCEPT !.edges[i].relations = Append(g.edges[i].relations, relation_type),
                       !.edges[i].count = g.edges[i].count + 1]
    ELSE [g EXCEPT !.edges = Append(g.edges,
                        [source |-> subject, target |-> obj,
                         relations |-> <<relation_type>>,
                         count |-> 1, confidence |-> confidence])]

\* AddEdgeGraph with the list of an existing edge replaced, not appended to
AddEdgeGraph_Replace(g, subject, relation_type, obj, confidence) ==
    IF has_edge(g, subject, obj)
    THEN [g EXCEPT !.edges[EdgeIndex(g, subject, obj)].relations = <<relation_type>>]
    ELSE [g EXCEPT !.edges = Append(g.edges,
                        [source |-> subject, target |-> obj,
                         relations |-> <<relation_type>>,
                         count |-> 1, confidence |-> confidence])]

\* lines 97-109: the edge of the ordered pair is updated or created
AddEdgeGraph(g, subject, relation_type, obj, confidence) ==
    IF has_edge(g, subject, obj)
    THEN LET i == EdgeIndex(g, subject, obj)
             existing_relations == g.edges[i].relations
         IN  IF ~SeqContains(existing_relations, relation_type)
             THEN [g EXCEPT !.edges[i].relations = Append(existing_relations, relation_type),
                            !.edges[i].count = g.edges[i].count + 1]
             ELSE g
    ELSE [g EXCEPT !.edges = Append(g.edges,
                        [source |-> subject, target |-> obj,
                         relations |-> <<relation_type>>,
                         count |-> 1, confidence |-> confidence])]

AddRelationGraph(g, subject, relation_type, obj, confidence) ==
    AddEdgeGraph(EnsureNodes(g, subject, obj), subject, relation_type, obj, confidence)

\* lines 99-101: the call appends relation_type to the list of an existing edge
AppendsRelation(g, subject, relation_type, obj) ==
    /\ has_edge(g, subject, obj)
    /\ ~SeqContains(EdgeOf(g, subject, obj).relations, relation_type)

\* line 101 seen from another graph h whose edge (subject, obj) holds the
\* same list object: existing_relations.append(relation_type) grows it too
AppendToSharedList(h, subject, relation_type, obj) ==
    [h EXCEPT !.edges[EdgeIndex(h, subject, obj)].relations = Append(@, relation_type)]

\* the add_entity calls add_relation makes on g, in order
ImplicitEntityCalls(g, subject, obj) ==
    (IF has_node(g, subject)
     THEN <<>>
     ELSE <<[name |-> subject, type |-> "UNKNOWN", via |-> "add_relation"]>>)
    \o
    (IF has_node(EnsureNode(g, subject), obj)
     THEN <<>>
     ELSE <<[name |-> obj, type |-> "UNKNOWN", via |-> "add_relation"]>>)

(***************************************************************************)
(* Inputs of the public calls.                                             *)
(***************************************************************************)
EntityNames == {<<"A">>, <<"a">>, <<" ", "A">>, <<" ">>}

EntityTypes == {"PERSON", "ORG"}

Metadatas == {"None", "doc0"}

EndpointNames == {<<"A">>, <<"a", " ">>}

RelationTypes == {"child_of", "married_to"}

Confidences == {80, 100}

Contexts == {"None"}

PublicCalls ==
    Len(relation_calls)
    + Cardinality({i \in 1..Len(entity_calls) : entity_calls[i].via = "api"})

(***************************************************************************)
(* State after construction: KnowledgeGraph.__init__.                      *)
(***************************************************************************)
InitGraph ==
    /\ graph = EmptyGraph
    /\ entity_metadata = EmptyDict
    /\ relation_metadata = EmptyDict
    /\ entity_calls = <<>>
    /\ relation_calls = <<>>

IdleResolver ==
    /\ entities = <<>>
    /\ matches = <<>>
    /\ doc_text = <<>>
    /\ relations = <<>>
    /\ pattern_relations = <<>>
    /\ dedup_input = <<>>
    /\ pc = "idle"

\* an absent value (None, no file, no object) is <<>>, a present x is <<x>>
None == <<>>

Some(x) == <<x>>

\* what a call that returns nothing leaves behind
NoReturn == [call |-> <<>>, raised |-> "None", value |-> None]

\* no file was exported, get_subgraph was not called, nothing was returned;
\* a KnowledgeGraphBuilder as __init__ leaves it
IdleStore ==
    /\ json_file = None
    /\ exported = None
    /\ file_calls = 0
    /\ subgraph = None
    /\ subgraph_calls = 0
    /\ shared_relations = {}
    /\ shared_metadata = {}
    /\ returned = NoReturn
    /\ builder = [graph |-> EmptyGraph, entity_mentions |-> EmptyDict]

Threads == 1..MaxThreads

IdleThread == [pc |-> "idle", entity_name |-> <<>>, entity_type |-> "None", count |-> 0]

\* no caller is inside a call
IdleThreads ==
    /\ threads = [t \in Threads |-> IdleThread]
    /\ serialized = TRUE

IdleLoop == [pass |-> "idle", k |-> 0]

\* WayangPipeline.__init__: no data frame; build_from_dataframe is not running
IdleBatch ==
    /\ df = None
    /\ loop = IdleLoop
    /\ merged = <<>>
    /\ completed = <<>>
    /\ running = 0

IdleComponents == IdleThreads /\ IdleBatch

Init == InitGraph /\ IdleResolver /\ IdleStore /\ IdleComponents

(***************************************************************************)
(* The public operations of KnowledgeGraph.  entity_calls and              *)
(* relation_calls record the calls made; the program does not read them.   *)
(***************************************************************************)
add_entity(entity_name, entity_type, metadata) ==
    /\ PublicCalls < MaxCalls
    /\ LET name == Strip(entity_name)
       IN  /\ graph' = AddEntityGraph(graph, name, entity_type)
           /\ entity_metadata' = AddEntityMetadata(entity_metadata, name, metadata)
           /\ subgraph' = IF name \in shared_metadata /\ Truthy(metadata)
                          THEN Some([subgraph[1] EXCEPT !.entity_metadata =
                                        DictAppend(@, name, metadata)])
                          ELSE subgraph
    /\ entity_calls' = Append(entity_calls,
            [name |-> entity_name, type |-> entity_type, via |-> "api"])
    /\ returned' = NoReturn
    /\ UNCHANGED <<relation_metadata, relation_calls>>
    /\ UNCHANGED <<subgraph_calls, shared_relations, shared_metadata>>
    /\ UNCHANGED fileVars
    /\ UNCHANGED resolverVars
    /\ UNCHANGED componentVars

add_relation(subject, relation_type, obj, confidence, context) ==
    /\ PublicCalls < MaxCalls
    /\ LET s == Strip(subject)
           o == Strip(obj)
       IN  /\ graph' = AddRelationGraph(graph, s, relation_type, o, confidence)
           /\ relation_metadata' = DictAppend(relation_metadata, <<s, o, relation_type>>,
                    [confidence |-> confidence, context |-> context])
           /\ entity_calls' = entity_calls \o ImplicitEntityCalls(graph, s, o)
           /\ subgraph' = IF <<s, o>> \in shared_relations
                             /\ AppendsRelation(graph, s, relation_type, o)
                          THEN Some([subgraph[1] EXCEPT !.graph =
                                        AppendToSharedList(@, s, relation_type, o)])
                          ELSE subgraph
    /\ relation_calls' = Append(relation_calls,
            [subject |-> subject, relation |-> relation_type, obj |-> obj,
             confidence |-> confidence])
    /\ returned' = NoReturn
    /\ UNCHANGED entity_metadata
    /\ UNCHANGED <<subgraph_calls, shared_relations, shared_metadata>>
    /\ UNCHANGED fileVars
    /\ UNCHANGED resolverVars
    /\ UNCHANGED componentVars

AddEntityStep ==
    \E n \in EntityNames, t \in EntityTypes, m \in Metadatas : add_entity(n, t, m)

AddRelationStep ==
    \E s \in EndpointNames, o \in EndpointNames, r \in RelationTypes,
       c \in Confidences, x \in Contexts : add_relation(s, r, o, c, x)

Next == AddEntityStep \/ AddRelationStep

Spec == Init /\ [][Next]_vars

(***************************************************************************)
(* KnowledgeGraphBuilder.add_entity of src/build_knowledge_graph.py: the   *)
(* node type is a majority vote over the types recorded for the text.      *)
(***************************************************************************)
\* how often t occurs in types
Occurrences(types, t) == Cardinality({i \in 1..Len(types) : types[i] = t})

\* Counter(types).most_common(1)[0][0] with the last of the most frequent
\* types in place of the first
most_common_type_LastOfTies(types) ==
    LET seen == FirstSeen(<<>>, types)
        i == CHOOSE k \in 1..Len(seen) :
                 /\ \A j \in 1..Len(seen) :
                        Occurrences(types, seen[j]) <= Occurrences(types, seen[k])
                 /\ \A j \in (k + 1)..Len(seen) :
                        Occurrences(types, seen[j]) < Occurrences(types, seen[k])
    IN  seen[i]

\* Counter(types).most_common(1)[0][0]: a Counter keeps its keys in the
\* order they were first counted, and most_common(1) is max() over them,
\* which returns the first of the keys with the largest count
most_common_type(types) ==
    LET seen == FirstSeen(<<>>, types)
        i == CHOOSE k \in 1..Len(seen) :
                 /\ \A j \in 1..Len(seen) :
                        Occurrences(types, seen[j]) <= Occurrences(types, seen[k])
                 /\ \A j \in 1..(k - 1) :
                        Occurrences(types, seen[j]) < Occurrences(types, seen[k])
    IN  seen[i]

\* lines 216-227: the node is updated or created
BuilderNode(g, entity_text, entity_type, types) ==
    IF has_node(g, entity_text)
    THEN LET i == NodeIndex(g, entity_text)
         IN  [g EXCEPT !.nodes[i].count = g.nodes[i].count + 1,
                       !.nodes[i].type = most_common_type(types)]
    ELSE [g EXCEPT !.nodes = Append(g.nodes,
                        [id |-> entity_text, type |-> entity_type, count |-> 1])]

\* KnowledgeGraphBuilder.add_entity(entity_text, entity_type)
builder_add_entity(entity_text, entity_type) ==
    /\ Len(entity_calls) < MaxCalls
    /\ LET text == Strip(entity_text)
           mentions == DictAppend(builder.entity_mentions, text, entity_type)
       IN  builder' = IF text = <<>>
                      THEN builder
                      ELSE [graph |-> BuilderNode(builder.graph, text, entity_type,
                                                  mentions[text]),
                            entity_mentions |-> mentions]
    /\ entity_calls' = Append(entity_calls,
            [name |-> entity_text, type |-> entity_type, via |-> "builder"])
    /\ returned' = NoReturn
    /\ UNCHANGED <<graph, entity_metadata, relation_metadata, relation_calls>>
    /\ UNCHANGED <<threadVars, batchVars>>
    /\ UNCHANGED fileVars
    /\ UNCHANGED subgraphVars
    /\ UNCHANGED resolverVars

BuilderEntityTypes == {"PERSON", "ORG", "LOC"}

NextBuilder ==
    \E n \in EntityNames, t \in BuilderEntityTypes : builder_add_entity(n, t)

BuilderSpec == Init /\ [][NextBuilder]_vars

(***************************************************************************)
(* KnowledgeGraph.add_entity statement by statement, for callers that      *)
(* share one KnowledgeGraph.  The class holds no lock: serialized says     *)
(* whether the callers put one around each call.  The calls pass no        *)
(* metadata.                                                               *)
(***************************************************************************)
\* line 59, the store: nodes[entity_name]['count'] = count + 1, count being
\* what the same statement read; here the store leaves the count as read
StoreCount_NoIncrement(g, entity_name, count) ==
    [g EXCEPT !.nodes[NodeIndex(g, entity_name)].count = count]

StoreCount(g, entity_name, count) ==
    [g EXCEPT !.nodes[NodeIndex(g, entity_name)].count = count + 1]

\* lines 62-64: DiGraph.add_node sets the attributes of a node that is
\* already there and adds the node otherwise
add_node(g, entity_name, entity_type) ==
    IF has_node(g, entity_name)
    THEN LET i == NodeIndex(g, entity_name)
         IN  [g EXCEPT !.nodes[i].type = entity_type, !.nodes[i].count = 1]
    ELSE [g EXCEPT !.nodes = Append(g.nodes,
                        [id |-> entity_name, type |-> entity_type, count |-> 1])]

ThreadStep(t, next) ==
    /\ threads' = [threads EXCEPT ![t] = next]
    /\ returned' = NoReturn
    /\ UNCHANGED <<entity_metadata, relation_metadata, relation_calls>>
    /\ UNCHANGED <<builder, serialized, batchVars>>
    /\ UNCHANGED fileVars
    /\ UNCHANGED subgraphVars
    /\ UNCHANGED resolverVars

\* line 53: the call is entered, by a caller that holds the lock if there is one
EnterAddEntity(t, entity_name, entity_type) ==
    /\ threads[t].pc = "idle"
    /\ Len(entity_calls) < MaxCalls
    /\ serialized => \A u \in Threads : threads[u].pc = "idle"
    /\ entity_calls' = Append(entity_calls,
            [name |-> entity_name, type |-> entity_type, via |-> "thread"])
    /\ UNCHANGED graph
    /\ ThreadStep(t, [pc |-> "has_node", entity_name |-> Strip(entity_name),
                      entity_type |-> entity_type, count |-> 0])

\* line 56
TestHasNode(t) ==
    /\ threads[t].pc = "has_node"
    /\ UNCHANGED <<graph, entity_calls>>
    /\ ThreadStep(t, [threads[t] EXCEPT !.pc =
            IF has_node(graph, threads[t].entity_name) THEN "set_type" ELSE "add_node"])

\* line 58
SetType(t) ==
    /\ threads[t].pc = "set_type"
    /\ graph' = [graph EXCEPT !.nodes[NodeIndex(graph, threads[t].entity_name)].type =
                     threads[t].entity_type]
    /\ UNCHANGED entity_calls
    /\ ThreadStep(t, [threads[t] EXCEPT !.pc = "read_count"])

\* line 59, the read: nodes[entity_name].get('count', 0)
ReadCount(t) ==
    /\ threads[t].pc = "read_count"
    /\ UNCHANGED <<graph, entity_calls>>
    /\ ThreadStep(t, [threads[t] EXCEPT !.pc = "store_count",
                          !.count = NodeOf(graph, threads[t].entity_name).count])

\* line 59, the store; the call returns
WriteCount(t) ==
    /\ threads[t].pc = "store_count"
    /\ graph' = StoreCount(graph, threads[t].entity_name, threads[t].count)
    /\ UNCHANGED entity_calls
    /\ ThreadStep(t, IdleThread)

\* lines 62-64; the call returns
AddNode(t) ==
    /\ threads[t].pc = "add_node"
    /\ graph' = add_node(graph, threads[t].entity_name, threads[t].entity_type)
    /\ UNCHANGED entity_calls
    /\ ThreadStep(t, IdleThread)

ThreadEntityNames == {<<"A">>, <<"A", " ">>}

NextThreads ==
    \E t \in Threads :
        \/ \E n \in ThreadEntityNames, y \in EntityTypes : EnterAddEntity(t, n, y)
        \/ TestHasNode(t)
        \/ SetType(t)
        \/ ReadCount(t)
        \/ WriteCount(t)
        \/ AddNode(t)

\* the callers either all take a lock around add_entity or none does
InitThreads ==
    /\ threads = [t \in Threads |-> IdleThread]
    /\ serialized \in BOOLEAN

ThreadInit == InitGraph /\ IdleResolver /\ IdleStore /\ InitThreads /\ IdleBatch

ThreadSpec == ThreadInit /\ [][NextThreads]_vars

(***************************************************************************)
(* networkx views of the graph.  Iteration over the nodes is in insertion  *)
(* order; the successors (predecessors) of a node come in the order in     *)
(* which their edges were added; edges() visits the nodes in order and,    *)
(* for each, its successors.                                               *)
(***************************************************************************)
\* list(G.successors(n))
successors(g, n) ==
    LET out == SelectSeq(g.edges, LAMBDA e : e.source = n)
    IN  [i \in 1..Len(out) |-> out[i].target]

\* list(G.predecessors(n))
predecessors(g, n) ==
    LET inc == SelectSeq(g.edges, LAMBDA e : e.target = n)
    IN  [i \in 1..Len(inc) |-> inc[i].source]

Range(s) == {s[i] : i \in 1..Len(s)}

\* G.degree(n): in-degree plus out-degree, a self-loop counts twice
degree(g, n) == Len(successors(g, n)) + Len(predecessors(g, n))

\* list(G.edges(data=True))
edges_view(g) ==
    ConcatAll([i \in 1..Len(g.nodes) |->
                  SelectSeq(g.edges, LAMBDA e : e.source = g.nodes[i].id)])

\* nx.density of a directed graph, the float m / (n * (n - 1)) as the pair
\* of its numerator and denominator; 0 when there is no edge or one node
density(g) ==
    LET n == Len(g.nodes)
        m == Len(g.edges)
    IN  IF m = 0 \/ n <= 1 THEN <<0, 1>> ELSE <<m, n * (n - 1)>>

RECURSIVE WeakComponent(_, _)
\* the nodes joined to a node of seen by edges taken in either direction
WeakComponent(g, seen) ==
    LET more == {e.target : e \in {x \in Range(g.edges) : x.source \in seen}}
                \cup {e.source : e \in {x \in Range(g.edges) : x.target \in seen}}
    IN  IF more \subseteq seen THEN seen ELSE WeakComponent(g, seen \cup more)

\* nx.is_weakly_connected on a graph with at least one node
is_weakly_connected(g) == WeakComponent(g, {g.nodes[1].id}) = NodeIds(g)

\* the slice [:10] of get_statistics
TopEntitiesLimit == 10

\* sorted(degrees.items(), key=lambda x: x[1], reverse=True): by degree,
\* highest first, nodes of equal degree in node order (the sort is stable)
sorted_by_degree(g) ==
    LET n == Len(g.nodes)
        d(i) == degree(g, g.nodes[i].id)
        rank(i) == 1 + Cardinality({j \in 1..n : d(j) > d(i) \/ (d(j) = d(i) /\ j < i)})
    IN  [k \in 1..n |-> LET i == CHOOSE i \in 1..n : rank(i) = k
                        IN  [entity |-> g.nodes[i].id, degree |-> d(i)]]

\* Counter(...) as a dict: how many elements of the list s are k, for each k of s
CounterOf(s) == [k \in Range(s) |-> Cardinality({i \in 1..Len(s) : s[i] = k})]

\* lines 166-189 of get_statistics, for a graph with at least one node
get_statistics(g) ==
    LET top == sorted_by_degree(g)
        limit == IF Len(top) < TopEntitiesLimit THEN Len(top) ELSE TopEntitiesLimit
    IN  [total_nodes |-> Len(g.nodes),
         total_edges |-> Len(g.edges),
         density |-> density(g),
         is_connected |-> is_weakly_connected(g),
         entity_type_distribution |->
             CounterOf([i \in 1..Len(g.nodes) |-> g.nodes[i].type]),
         relation_type_distribution |->
             CounterOf(ConcatAll([i \in 1..Len(edges_view(g)) |-> edges_view(g)[i].relations])),
         top_entities |-> SubSeq(top, 1, limit)]

\* nx.is_weakly_connected raises NetworkXPointlessConcept on the null graph
StatisticsRaise(g) == IF g.nodes = <<>> THEN "NetworkXPointlessConcept" ELSE "None"

(***************************************************************************)
(* KnowledgeGraph.to_json and KnowledgeGraph.from_json.  A JSON document   *)
(* is a record; a key the document lacks is a field the record lacks.      *)
(***************************************************************************)
\* lines 302-327: graph_data
to_json_data(g) ==
    [nodes |-> [i \in 1..Len(g.nodes) |->
                   [id |-> g.nodes[i].id, label |-> g.nodes[i].id,
                    type |-> g.nodes[i].type, count |-> g.nodes[i].count]],
     edges |-> [i \in 1..Len(edges_view(g)) |->
                   [source |-> edges_view(g)[i].source,
                    target |-> edges_view(g)[i].target,
                    relations |-> edges_view(g)[i].relations,
                    count |-> edges_view(g)[i].count,
                    confidence |-> edges_view(g)[i].confidence]],
     statistics |-> get_statistics(g)]

\* d.get(key, default)
GetOr(d, key, default) == IF key \in DOMAIN d THEN d[key] ELSE default

\* LoadNode with the count of the document ignored
LoadNode_NoCount(g, node) ==
    LET attrs == [id |-> node.id, type |-> GetOr(node, "type", "UNKNOWN"), count |-> 0]
    IN  IF has_node(g, node.id)
        THEN [g EXCEPT !.nodes[NodeIndex(g, node.id)] = attrs]
        ELSE [g EXCEPT !.nodes = Append(g.nodes, attrs)]

\* lines 353-356: self.graph.add_node(node['id'], type=..., count=...)
LoadNode(g, node) ==
    LET attrs == [id |-> node.id, type |-> GetOr(node, "type", "UNKNOWN"),
                  count |-> GetOr(node, "count", 0)]
    IN  IF has_node(g, node.id)
        THEN [g EXCEPT !.nodes[NodeIndex(g, node.id)] = attrs]
        ELSE [g EXCEPT !.nodes = Append(g.nodes, attrs)]

\* lines 359-364: self.graph.add_edge(edge['source'], edge['target'], ...),
\* both ends nodes of the graph already
LoadEdge(g, edge) ==
    LET attrs == [source |-> edge.source, target |-> edge.target,
                  relations |-> GetOr(edge, "relations", <<>>),
                  count |-> GetOr(edge, "count", 0),
                  confidence |-> GetOr(edge, "confidence", 100)]
    IN  IF has_edge(g, edge.source, edge.target)
        THEN [g EXCEPT !.edges[EdgeIndex(g, edge.source, edge.target)] = attrs]
        ELSE [g EXCEPT !.edges = Append(g.edges, attrs)]

RECURSIVE LoadNodes(_, _)
\* the loop of lines 353-356: the graph when the loop ends or raises
LoadNodes(g, nodes) ==
    IF nodes = <<>> THEN [graph |-> g, raised |-> "None"]
    ELSE IF "id" \notin DOMAIN Head(nodes) THEN [graph |-> g, raised |-> "KeyError"]
    ELSE LoadNodes(LoadNode(g, Head(nodes)), Tail(nodes))

RECURSIVE LoadEdges(_, _)
\* the loop of lines 359-364
LoadEdges(g, edges) ==
    IF edges = <<>> THEN [graph |-> g, raised |-> "None"]
    ELSE IF "source" \notin DOMAIN Head(edges) \/ "target" \notin DOMAIN Head(edges)
         THEN [graph |-> g, raised |-> "KeyError"]
    ELSE LoadEdges(LoadEdge(g, Head(edges)), Tail(edges))

\* lines 348-364 after the file was read: the graph is cleared, then loaded
LoadGraph(graph_data) ==
    IF "nodes" \notin DOMAIN graph_data
    THEN [graph |-> EmptyGraph, raised |-> "KeyError"]
    ELSE LET loaded == LoadNodes(EmptyGraph, graph_data.nodes)
         IN  IF loaded.raised # "None" THEN loaded
             ELSE IF "edges" \notin DOMAIN graph_data
                  THEN [graph |-> loaded.graph, raised |-> "KeyError"]
                  ELSE LoadEdges(loaded.graph, graph_data.edges)

\* what a call returned, or the exception it raised
Returned(call, raised, value) == [call |-> call, raised |-> raised, value |-> value]

(***************************************************************************)
(* Queries of KnowledgeGraph: get_entity_info, find_path, get_subgraph.    *)
(***************************************************************************)
\* lines 204-231 of get_entity_info, entity_name being a node
entity_info(g, metadata, entity_name) ==
    [name |-> entity_name,
     type |-> NodeOf(g, entity_name).type,
     mention_count |-> NodeOf(g, entity_name).count,
     degree |-> degree(g, entity_name),
     outgoing_relations |->
         [i \in 1..Len(successors(g, entity_name)) |->
             [target |-> successors(g, entity_name)[i],
              relations |-> EdgeOf(g, entity_name, successors(g, entity_name)[i]).relations]],
     incoming_relations |->
         [i \in 1..Len(predecessors(g, entity_name)) |->
             [source |-> predecessors(g, entity_name)[i],
              relations |-> EdgeOf(g, predecessors(g, entity_name)[i], entity_name).relations]],
     metadata |-> DictGet(metadata, entity_name)]

\* get_entity_info without the has_node test: something is returned for any id
get_entity_info_NoGuard(g, metadata, entity_name) ==
    Some([name |-> entity_name, metadata |-> DictGet(metadata, entity_name)])

get_entity_info(g, metadata, entity_name) ==
    IF ~has_node(g, entity_name) THEN None
    ELSE Some(entity_info(g, metadata, entity_name))

RECURSIVE SimplePathsFrom_NoCutoff(_, _, _, _)
\* SimplePathsFrom that follows a path however long it is
SimplePathsFrom_NoCutoff(g, path, target, cutoff) ==
    LET next == SelectSeq(successors(g, path[Len(path)]),
                          LAMBDA v : ~SeqContains(path, v))
    IN  ConcatAll([i \in 1..Len(next) |->
            IF next[i] = target THEN <<Append(path, target)>>
            ELSE SimplePathsFrom_NoCutoff(g, Append(path, next[i]), target, cutoff)])

RECURSIVE SimplePathsFrom(_, _, _, _)
\* nx.all_simple_paths, depth first: the paths to target that extend path,
\* a path of one node or more that has not reached target, by edges to nodes
\* not on it, up to cutoff edges in all
SimplePathsFrom(g, path, target, cutoff) ==
    LET next == SelectSeq(successors(g, path[Len(path)]),
                          LAMBDA v : ~SeqContains(path, v))
    IN  ConcatAll([i \in 1..Len(next) |->
            IF next[i] = target THEN <<Append(path, target)>>
            ELSE IF Len(path) < cutoff
                 THEN SimplePathsFrom(g, Append(path, next[i]), target, cutoff)
                 ELSE <<>>])

\* what list(nx.all_simple_paths(G, source, target, cutoff)) can be for two
\* nodes of G.  For source = target networkx before 3.2 yields nothing and
\* networkx from 3.2 on yields the path [source]; the repository pins no
\* version.
all_simple_paths(g, source, target, cutoff) ==
    IF source = target THEN {<<>>, <<<<source>>>>}
    ELSE IF cutoff < 1 THEN {<<>>}
    ELSE {SimplePathsFrom(g, <<source>>, target, cutoff)}

\* the lists find_path can return
find_path(g, source, target, max_length) ==
    IF ~has_node(g, source) \/ ~has_node(g, target) THEN {<<>>}
    ELSE all_simple_paths(g, source, target, max_length)

\* Neighbours with the successors only
Neighbours_SuccessorsOnly(g, level) == UNION {Range(successors(g, n)) : n \in level}

\* the neighbours of the nodes of level: successors and predecessors
Neighbours(g, level) ==
    UNION {Range(successors(g, n)) \cup Range(predecessors(g, n)) : n \in level}

RECURSIVE NeighbourhoodLoop(_, _, _, _)
\* lines 272-278: nodes after the remaining rounds of the loop
NeighbourhoodLoop(g, nodes, current_level, rounds) ==
    IF rounds <= 0 THEN nodes
    ELSE LET next_level == Neighbours(g, current_level)
             level == next_level \ nodes
         IN  NeighbourhoodLoop(g, nodes \cup level, level, rounds - 1)

\* G.subgraph(nodes).copy(): the nodes and edges of g among nodes
InducedSubgraph(g, nodes) ==
    [nodes |-> SelectSeq(g.nodes, LAMBDA n : n.id \in nodes),
     edges |-> SelectSeq(g.edges, LAMBDA e : e.source \in nodes /\ e.target \in nodes)]

\* entity_metadata restricted to the keys in nodes
RestrictDict(d, nodes) == [k \in (DOMAIN d) \cap nodes |-> d[k]]

\* the KnowledgeGraph get_subgraph returns
get_subgraph(g, metadata, entity_name, depth) ==
    IF ~has_node(g, entity_name) THEN None
    ELSE LET nodes == NeighbourhoodLoop(g, {entity_name}, {entity_name}, depth)
         IN  Some([graph |-> InducedSubgraph(g, nodes),
                   entity_metadata |-> RestrictDict(metadata, nodes),
                   relation_metadata |-> EmptyDict])

(***************************************************************************)
(* GraphVisualizer (src/visualization.py).  What a view renders is the     *)
(* pyvis network it fills: its nodes, and its edges in the order added.    *)
(***************************************************************************)
\* EgoEdges with the edges among the neighbours added
EgoEdges_Induced(g, entity_name) ==
    LET nodes == {entity_name} \cup Neighbours(g, {entity_name})
        among == SelectSeq(g.edges, LAMBDA e : e.source \in nodes /\ e.target \in nodes)
    IN  [i \in 1..Len(among) |-> <<among[i].source, among[i].target>>]

\* lines 463-507: the edges from the central entity, then the edges to it
EgoEdges(g, entity_name) ==
    [i \in 1..Len(successors(g, entity_name)) |->
        <<entity_name, successors(g, entity_name)[i]>>]
    \o
    [i \in 1..Len(predecessors(g, entity_name)) |->
        <<predecessors(g, entity_name)[i], entity_name>>]

visualize_entity_direct_relations(g, entity_name) ==
    IF ~has_node(g, entity_name) THEN None
    ELSE Some([nodes |-> {entity_name} \cup Neighbours(g, {entity_name}),
               edges |-> EgoEdges(g, entity_name)])

\* lines 207-224: for each displayed node its edges to and from displayed
\* nodes, an edge already added left out
OneLevelEdges(g, nodes_to_display) ==
    LET shown == Range(nodes_to_display)
        of(node) ==
            LET out == SelectSeq(successors(g, node), LAMBDA t : t \in shown)
                inc == SelectSeq(predecessors(g, node), LAMBDA u : u \in shown)
            IN  [i \in 1..Len(out) |-> <<node, out[i]>>]
                \o [i \in 1..Len(inc) |-> <<inc[i], node>>]
    IN  FirstSeen(<<>>, ConcatAll([i \in 1..Len(nodes_to_display) |->
                                      of(nodes_to_display[i])]))

\* lines 225-229: every edge between displayed nodes
AllEdges(g, nodes_to_display) ==
    LET among == SelectSeq(edges_view(g),
                           LAMBDA e : e.source \in Range(nodes_to_display)
                                      /\ e.target \in Range(nodes_to_display))
    IN  [i \in 1..Len(among) |-> <<among[i].source, among[i].target>>]

\* max(degrees.values()) if degrees else 1
max_degree(g) ==
    IF g.nodes = <<>> THEN 1
    ELSE CHOOSE d \in {degree(g, n) : n \in NodeIds(g)} :
            \A n \in NodeIds(g) : degree(g, n) <= d

\* visualize_from_knowledge_graph(kg, max_nodes=None, max_edges=None,
\* one_level_per_node): line 189, size = 10 + (degree / max_degree) * 30,
\* divides by zero for the first node when no node has an edge
visualize_from_knowledge_graph(g, one_level_per_node) ==
    LET nodes_to_display == [i \in 1..Len(g.nodes) |-> g.nodes[i].id]
    IN  IF g.nodes # <<>> /\ max_degree(g) = 0
        THEN Returned(<<>>, "ZeroDivisionError", None)
        ELSE Returned(<<>>, "None",
                 Some([nodes |-> Range(nodes_to_display),
                       edges |-> IF one_level_per_node
                                 THEN OneLevelEdges(g, nodes_to_display)
                                 ELSE AllEdges(g, nodes_to_display)]))

\* hub_nodes of visualize_hub_network taken in node order, whatever the degrees
HubNodes_Unsorted(g, top_entities) ==
    LET limit == IF Len(g.nodes) < top_entities THEN Len(g.nodes) ELSE top_entities
    IN  {g.nodes[i].id : i \in 1..limit}

\* lines 312-314: hub_nodes, the first top_entities nodes by degree
HubNodes(g, top_entities) ==
    LET sorted_entities == sorted_by_degree(g)
        limit == IF Len(sorted_entities) < top_entities
                 THEN Len(sorted_entities) ELSE top_entities
    IN  {sorted_entities[i].entity : i \in 1..limit}

visualize_hub_network(g, top_entities) ==
    LET hub_nodes == HubNodes(g, top_entities)
        all_nodes == hub_nodes \cup Neighbours(g, hub_nodes)
    IN  visualize_from_knowledge_graph(InducedSubgraph(g, all_nodes), TRUE)

\* to_json(filepath): the file is written after graph_data was built
to_json ==
    /\ file_calls < MaxFileCalls
    /\ file_calls' = file_calls + 1
    /\ IF StatisticsRaise(graph) # "None"
       THEN /\ returned' = Returned(<<"to_json">>, StatisticsRaise(graph), None)
            /\ UNCHANGED <<json_file, exported>>
       ELSE /\ json_file' = Some(to_json_data(graph))
            /\ exported' = Some(graph)
            /\ returned' = Returned(<<"to_json">>, "None", Some(to_json_data(graph)))
    /\ UNCHANGED graphVars
    /\ UNCHANGED subgraphVars
    /\ UNCHANGED resolverVars
    /\ UNCHANGED componentVars

\* from_json(filepath), file being what is at filepath: no file, or a document
from_json(file) ==
    /\ file_calls < MaxFileCalls
    /\ file_calls' = file_calls + 1
    /\ IF file = None
       THEN /\ returned' = Returned(<<"from_json", file>>, "FileNotFoundError", None)
            /\ UNCHANGED <<graph, entity_metadata, relation_metadata>>
            /\ UNCHANGED <<shared_relations, shared_metadata>>
       ELSE /\ graph' = LoadGraph(file[1]).graph
            /\ entity_metadata' = EmptyDict
            /\ relation_metadata' = EmptyDict
            /\ shared_relations' = {}
            /\ shared_metadata' = {}
            /\ returned' = Returned(<<"from_json", file>>, LoadGraph(file[1]).raised, None)
    /\ UNCHANGED <<entity_calls, relation_calls>>
    /\ UNCHANGED <<subgraph, subgraph_calls>>
    /\ UNCHANGED <<json_file, exported>>
    /\ UNCHANGED resolverVars
    /\ UNCHANGED componentVars

(***************************************************************************)
(* A KnowledgeGraph that is built, exported and loaded.                    *)
(***************************************************************************)
NodeNames == {<<"A">>, <<"B">>, <<"C">>}

\* the calls that build the graph that is exported
FileEntityNames == {<<"A">>}

FileEndpoints == {<<<<"A">>, <<"B">>>>, <<<<"B">>, <<"A">>>>}

FileConfidence == 80

NodeA == [id |-> <<"A">>, label |-> <<"A">>, type |-> "PERSON", count |-> 2]

NodeB == [id |-> <<"B">>, type |-> "ORG"]

EdgeAB ==
    [source |-> <<"A">>, target |-> <<"B">>, relations |-> <<"child_of">>,
     count |-> 1, confidence |-> FileConfidence]

\* documents that lack a required key
MalformedDocuments ==
    {[edges |-> <<>>],
     [nodes |-> <<NodeA, NodeB>>,
      edges |-> <<EdgeAB, [source |-> <<"B">>, relations |-> <<"child_of">>]>>]}

\* a document written by hand: defaults for the keys an entry lacks
HandWrittenDocuments ==
    {[nodes |-> <<NodeA, NodeB>>,
      edges |-> <<[source |-> <<"B">>, target |-> <<"A">>]>>]}

FileAddEntityStep ==
    \E n \in FileEntityNames : add_entity(n, "PERSON", "doc0")

FileAddRelationStep ==
    \E e \in FileEndpoints, r \in RelationTypes :
        add_relation(e[1], r, e[2], FileConfidence, "None")

ToJsonStep == to_json

FromJsonStep ==
    \/ from_json(json_file)
    \/ \E d \in MalformedDocuments \cup HandWrittenDocuments : from_json(Some(d))

NextJson == FileAddEntityStep \/ FileAddRelationStep \/ ToJsonStep \/ FromJsonStep

JsonSpec == Init /\ [][NextJson]_vars

(***************************************************************************)
(* A KnowledgeGraph that is built and queried.  A query changes nothing;   *)
(* returned holds the call and what it returned.                           *)
(***************************************************************************)
\* a query of the graph that returned value
Query(call, raised, value) ==
    /\ returned' = Returned(call, raised, value)
    /\ UNCHANGED graphVars
    /\ UNCHANGED fileVars
    /\ UNCHANGED subgraphVars
    /\ UNCHANGED resolverVars
    /\ UNCHANGED componentVars

call_get_entity_info(entity_name) ==
    Query(<<"get_entity_info", entity_name>>, "None",
          get_entity_info(graph, entity_metadata, entity_name))

call_find_path(source, target, max_length) ==
    \E paths \in find_path(graph, source, target, max_length) :
        Query(<<"find_path", source, target, max_length>>, "None", Some(paths))

call_get_subgraph(entity_name, depth) ==
    Query(<<"get_subgraph", entity_name, depth>>, "None",
          get_subgraph(graph, entity_metadata, entity_name, depth))

call_visualize_entity_direct_relations(entity_name) ==
    Query(<<"visualize_entity_direct_relations", entity_name>>, "None",
          visualize_entity_direct_relations(graph, entity_name))

call_visualize_hub_network(top_entities) ==
    Query(<<"visualize_hub_network", top_entities>>,
          visualize_hub_network(graph, top_entities).raised,
          visualize_hub_network(graph, top_entities).value)

ViewEntityNames == {<<"A">>}

ViewEndpoints ==
    {<<<<"A">>, <<"B">>>>, <<<<"B">>, <<"C">>>>, <<<<"A">>, <<"C">>>>,
     <<<<"C">>, <<"A">>>>, <<<<"A">>, <<"A">>>>}

ViewRelationType == "child_of"

MaxLengths == {1, 2}

Depths == {0, 1, 2}

TopEntities == {0, 1, 2}

ViewAddEntityStep ==
    \E n \in ViewEntityNames : add_entity(n, "PERSON", "doc0")

ViewAddRelationStep ==
    \E e \in ViewEndpoints :
        add_relation(e[1], ViewRelationType, e[2], FileConfidence, "None")

GetEntityInfoStep == \E n \in NodeNames : call_get_entity_info(n)

FindPathStep ==
    \E s \in NodeNames, t \in NodeNames, m \in MaxLengths : call_find_path(s, t, m)

GetSubgraphStep == \E n \in NodeNames, d \in Depths : call_get_subgraph(n, d)

EgoViewStep == \E n \in NodeNames : call_visualize_entity_direct_relations(n)

HubViewStep == \E k \in TopEntities : call_visualize_hub_network(k)

\* get_subgraph(entity_name) with the default depth
DefaultDepth == 1

LookupSubgraphStep == \E n \in NodeNames : call_get_subgraph(n, DefaultDepth)

NextView ==
    \/ ViewAddEntityStep
    \/ ViewAddRelationStep
    \/ GetSubgraphStep
    \/ EgoViewStep
    \/ HubViewStep

ViewSpec == Init /\ [][NextView]_vars

\* kg.get_statistics() as a call: the value, or what is_weakly_connected raises
call_get_statistics ==
    Query(<<"get_statistics">>, StatisticsRaise(graph),
          IF StatisticsRaise(graph) # "None" THEN None ELSE Some(get_statistics(graph)))

\* a KnowledgeGraph that is filled, asked for its statistics and exported
NextStatistics ==
    \/ FileAddEntityStep
    \/ FileAddRelationStep
    \/ call_get_statistics
    \/ ToJsonStep

StatisticsSpec == Init /\ [][NextStatistics]_vars

\* GraphVisualizer.visualize_from_knowledge_graph(kg, one_level_per_node=...)
\* with no more nodes than max_nodes, so that line 175 drops none
call_visualize_from_knowledge_graph(one_level_per_node) ==
    Query(<<"visualize_from_knowledge_graph", one_level_per_node>>,
          visualize_from_knowledge_graph(graph, one_level_per_node).raised,
          visualize_from_knowledge_graph(graph, one_level_per_node).value)

FullViewStep == \E one_level \in BOOLEAN : call_visualize_from_knowledge_graph(one_level)

\* a KnowledgeGraph that is filled and rendered whole or by its hubs
NextRender ==
    \/ ViewAddEntityStep
    \/ ViewAddRelationStep
    \/ HubViewStep
    \/ FullViewStep

RenderSpec == Init /\ [][NextRender]_vars

NextLookup ==
    \/ ViewAddEntityStep
    \/ ViewAddRelationStep
    \/ GetEntityInfoStep
    \/ FindPathStep
    \/ LookupSubgraphStep
    \/ EgoViewStep

LookupSpec == Init /\ [][NextLookup]_vars

(***************************************************************************)
(* A KnowledgeGraph and a graph get_subgraph returned, both in use.        *)
(* G.subgraph(nodes).copy() copies each attribute dict but not the values  *)
(* in it, and the dict comprehension of get_subgraph copies the keys but   *)
(* not the lists: the 'relations' list of every copied edge and the        *)
(* metadata list of every copied key are one object held by both graphs.   *)
(* shared_relations and shared_metadata name these lists.                  *)
(***************************************************************************)
\* sub = kg.get_subgraph(entity_name, depth): the caller keeps the graph
HoldSubgraph ==
    /\ subgraph = None
    /\ Len(returned.call) > 0
    /\ returned.call[1] = "get_subgraph"
    /\ returned.value # None
    /\ subgraph' = returned.value
    /\ subgraph_calls' = 0
    /\ shared_relations' =
           {<<e.source, e.target>> : e \in Range(returned.value[1].graph.edges)}
    /\ shared_metadata' = DOMAIN returned.value[1].entity_metadata
    /\ UNCHANGED returned
    /\ UNCHANGED graphVars
    /\ UNCHANGED fileVars
    /\ UNCHANGED resolverVars
    /\ UNCHANGED componentVars

\* sub.add_entity(entity_name, entity_type, metadata)
subgraph_add_entity(entity_name, entity_type, metadata) ==
    /\ subgraph # None
    /\ subgraph_calls < MaxSubgraphCalls
    /\ subgraph_calls' = subgraph_calls + 1
    /\ LET name == Strip(entity_name)
       IN  /\ subgraph' = Some([subgraph[1] EXCEPT
                    !.graph = AddEntityGraph(@, name, entity_type),
                    !.entity_metadata = AddEntityMetadata(@, name, metadata)])
           /\ entity_metadata' = IF name \in shared_metadata /\ Truthy(metadata)
                                 THEN DictAppend(entity_metadata, name, metadata)
                                 ELSE entity_metadata
    /\ returned' = NoReturn
    /\ UNCHANGED <<graph, relation_metadata, entity_calls, relation_calls>>
    /\ UNCHANGED <<shared_relations, shared_metadata>>
    /\ UNCHANGED fileVars
    /\ UNCHANGED resolverVars
    /\ UNCHANGED componentVars

\* sub.add_relation(subject, relation_type, obj, confidence, context)
subgraph_add_relation(subject, relation_type, obj, confidence, context) ==
    /\ subgraph # None
    /\ subgraph_calls < MaxSubgraphCalls
    /\ subgraph_calls' = subgraph_calls + 1
    /\ LET s == Strip(subject)
           o == Strip(obj)
       IN  /\ subgraph' = Some([subgraph[1] EXCEPT
                    !.graph = AddRelationGraph(@, s, relation_type, o, confidence),
                    !.relation_metadata = DictAppend(@, <<s, o, relation_type>>,
                        [confidence |-> confidence, context |-> context])])
           /\ graph' = IF <<s, o>> \in shared_relations
                          /\ AppendsRelation(subgraph[1].graph, s, relation_type, o)
                       THEN AppendToSharedList(graph, s, relation_type, o)
                       ELSE graph
    /\ returned' = NoReturn
    /\ UNCHANGED <<entity_metadata, relation_metadata, entity_calls, relation_calls>>
    /\ UNCHANGED <<shared_relations, shared_metadata>>
    /\ UNCHANGED fileVars
    /\ UNCHANGED resolverVars
    /\ UNCHANGED componentVars

SourceEndpoints == {<<<<"A">>, <<"B">>>>, <<<<"B">>, <<"C">>>>}

SubgraphDepths == {0, 1}

SourceAddEntityStep ==
    \E n \in ViewEntityNames : add_entity(n, "PERSON", "doc0")

SourceAddRelationStep ==
    \E e \in SourceEndpoints, r \in RelationTypes :
        add_relation(e[1], r, e[2], FileConfidence, "None")

\* the caller takes one subgraph and keeps it
TakeSubgraphStep ==
    /\ subgraph = None
    /\ \E n \in ViewEntityNames, d \in SubgraphDepths : call_get_subgraph(n, d)

SubgraphAddEntityStep ==
    \E n \in ViewEntityNames : subgraph_add_entity(n, "ORG", "doc1")

SubgraphAddRelationStep ==
    \E e \in SourceEndpoints, r \in RelationTypes :
        subgraph_add_relation(e[1], r, e[2], FileConfidence, "None")

NextSubgraph ==
    \/ SourceAddEntityStep
    \/ SourceAddRelationStep
    \/ TakeSubgraphStep
    \/ HoldSubgraph
    \/ SubgraphAddEntityStep
    \/ SubgraphAddRelationStep

SubgraphSpec == Init /\ [][NextSubgraph]_vars

(***************************************************************************)
(* KnowledgeGraph.build_from_dataframe: one action per add_entity or       *)
(* add_relation call it makes.  A row of the data frame is a document with *)
(* its list of entities and its list of relations; idx is its position.    *)
(***************************************************************************)
\* lines 134-141: the entities of all rows in the order the first loop
\* visits them, each with the idx of its row
EntityItems(rows) ==
    ConcatAll([i \in 1..Len(rows) |->
        [k \in 1..Len(rows[i].entities) |-> [idx |-> i, item |-> rows[i].entities[k]]]])

\* lines 144-155: the relations of all rows in the order the second loop
\* visits them
RelationItems(rows) ==
    ConcatAll([i \in 1..Len(rows) |->
        [k \in 1..Len(rows[i].relations) |-> [idx |-> i, item |-> rows[i].relations[k]]]])

\* the fields of the KnowledgeGraph and the record of the calls made on it
CurrentKG ==
    [graph |-> graph, entity_metadata |-> entity_metadata,
     relation_metadata |-> relation_metadata,
     entity_calls |-> entity_calls, relation_calls |-> relation_calls]

BecomesKG(kg) ==
    /\ graph' = kg.graph
    /\ entity_metadata' = kg.entity_metadata
    /\ relation_metadata' = kg.relation_metadata
    /\ entity_calls' = kg.entity_calls
    /\ relation_calls' = kg.relation_calls

\* lines 137-141: self.add_entity(entity['text'], entity['type'],
\* metadata={'document_id': idx, ...})
MergeEntityInto(kg, e) ==
    LET name == Strip(e.item.text)
    IN  [kg EXCEPT
            !.graph = AddEntityGraph(@, name, e.item.type),
            !.entity_metadata = DictAppend(@, name, [document_id |-> e.idx]),
            !.entity_calls = Append(@, [name |-> e.item.text, type |-> e.item.type,
                                        via |-> "api"])]

\* lines 148-154: self.add_relation(subject, relation, object, confidence, context)
MergeRelationInto(kg, r) ==
    LET s == Strip(r.item.subject)
        o == Strip(r.item.object)
    IN  [kg EXCEPT
            !.graph = AddRelationGraph(@, s, r.item.relation, o, r.item.confidence),
            !.relation_metadata = DictAppend(@, <<s, o, r.item.relation>>,
                [confidence |-> r.item.confidence, context |-> "None"]),
            !.entity_calls = @ \o ImplicitEntityCalls(kg.graph, s, o),
            !.relation_calls = Append(@,
                [subject |-> r.item.subject, relation |-> r.item.relation,
                 obj |-> r.item.object, confidence |-> r.item.confidence])]

RECURSIVE MergeEntitiesInto(_, _)
MergeEntitiesInto(kg, items) ==
    IF items = <<>> THEN kg
    ELSE MergeEntitiesInto(MergeEntityInto(kg, Head(items)), Tail(items))

RECURSIVE MergeRelationsInto(_, _)
MergeRelationsInto(kg, items) ==
    IF items = <<>> THEN kg
    ELSE MergeRelationsInto(MergeRelationInto(kg, Head(items)), Tail(items))

\* build_from_dataframe as one call: the two loops, one after the other
build_from_dataframe(kg, rows) ==
    MergeRelationsInto(MergeEntitiesInto(kg, EntityItems(rows)), RelationItems(rows))

BatchStep ==
    /\ returned' = NoReturn
    /\ UNCHANGED <<df, completed, running>>
    /\ UNCHANGED <<builder, threadVars>>
    /\ UNCHANGED fileVars
    /\ UNCHANGED subgraphVars
    /\ UNCHANGED resolverVars

\* one iteration of the inner loop of lines 134-141
MergeEntity ==
    /\ loop.pass = "entities"
    /\ loop.k <= Len(EntityItems(df[1].rows))
    /\ BecomesKG(MergeEntityInto(CurrentKG, EntityItems(df[1].rows)[loop.k]))
    /\ merged' = Append(merged, EntityItems(df[1].rows)[loop.k].idx)
    /\ loop' = [loop EXCEPT !.k = loop.k + 1]
    /\ BatchStep

\* line 144: the first loop is over, the second begins
StartRelations ==
    /\ loop.pass = "entities"
    /\ loop.k > Len(EntityItems(df[1].rows))
    /\ loop' = [pass |-> "relations", k |-> 1]
    /\ UNCHANGED <<graphVars, merged>>
    /\ BatchStep

\* one iteration of the inner loop of lines 144-155
MergeRelation ==
    /\ loop.pass = "relations"
    /\ loop.k <= Len(RelationItems(df[1].rows))
    /\ BecomesKG(MergeRelationInto(CurrentKG, RelationItems(df[1].rows)[loop.k]))
    /\ merged' = Append(merged, RelationItems(df[1].rows)[loop.k].idx)
    /\ loop' = [loop EXCEPT !.k = loop.k + 1]
    /\ BatchStep

\* lines 156-157: the second loop is over
FinishBuild ==
    /\ loop.pass = "relations"
    /\ loop.k > Len(RelationItems(df[1].rows))
    /\ loop' = [pass |-> "done", k |-> 0]
    /\ UNCHANGED <<graphVars, merged>>
    /\ BatchStep

NextBatch == MergeEntity \/ StartRelations \/ MergeRelation \/ FinishBuild

\* the documents a data frame is made of
Documents ==
    {[entities |-> <<>>, relations |-> <<>>],
     [entities |-> <<[text |-> <<"A">>, type |-> "PERSON"]>>,
      relations |-> <<[subject |-> <<"A">>, relation |-> "child_of", object |-> <<"B">>,
                       confidence |-> FileConfidence]>>],
     [entities |-> <<[text |-> <<"B">>, type |-> "ORG"], [text |-> <<"A">>, type |-> "ORG"]>>,
      relations |-> <<>>],
     [entities |-> <<>>,
      relations |-> <<[subject |-> <<"B">>, relation |-> "married_to", object |-> <<"A">>,
                       confidence |-> FileConfidence]>>]}

AllColumns == {"text", "normalized_text", "entities", "relations"}

InitBatch ==
    /\ \E rows \in SeqsUpTo(Documents, MaxDocuments) :
          df = Some([columns |-> AllColumns, rows |-> rows])
    /\ loop = [pass |-> "entities", k |-> 1]
    /\ merged = <<>>
    /\ completed = <<>>
    /\ running = 0

BatchInit == InitGraph /\ IdleResolver /\ IdleStore /\ IdleThreads /\ InitBatch

BatchSpec == BatchInit /\ [][NextBatch]_vars

----------------------------------------------------------------------------
\* WayangPipeline (pipeline.py): six stages over one data frame and one
\* KnowledgeGraph.  A data frame is its set of columns and its rows; a row
\* carries the entities and the relations the extractors found in it, which
\* mean something only once the column of that name exists.

\* the stages in the order run_full_pipeline calls them (lines 241-246)
StageOrder ==
    <<"load_data", "preprocess", "extract_entities", "extract_relations",
      "build_knowledge_graph", "visualize_graph">>

\* stage calls one pipeline object is taken through
MaxStages == 7

\* visualize_graph: "if light_mode and total_nodes > 50" (line 206)
HubThreshold == 50

\* run_full_pipeline's default max_vis_nodes (line 228)
MaxVisNodes == 100

\* a guard that asks for the data frame only
HasColumn_AnyFrame(frame, column) == frame # None

\* "self.df is None or '<column>' not in self.df.columns", negated
HasColumn(frame, column) == frame # None /\ column \in frame[1].columns

\* preprocess_dataframe adds these columns (archived/preprocessing.py 137-144)
PreprocessColumns == {"cleaned_text", "normalized_text", "sentences", "sentence_count"}

\* what the extractors may find in the one text of the dataset
RowEntities ==
    {<<>>,
     <<[text |-> <<"A">>, type |-> "PERSON"]>>,
     <<[text |-> <<"B">>, type |-> "PERSON"], [text |-> <<"A">>, type |-> "PERSON"]>>}

\* process_dataframe: no relations for a row without entities (lines 499-506);
\* the subject and the object of a relation are entities of the row
RowRelations(row_entities) ==
    {<<>>} \cup
    IF Len(row_entities) = 2
    THEN {<<[subject |-> row_entities[2].text, relation |-> "child_of",
             object |-> row_entities[1].text, confidence |-> FileConfidence]>>}
    ELSE {}

\* a stage may be called directly, or by run_full_pipeline when its turn comes
MayCall(stage) ==
    /\ Len(completed) < MaxStages
    /\ IF running = 0 THEN TRUE ELSE StageOrder[running] = stage

\* the stage returns or raises: directly to the caller, or inside
\* run_full_pipeline, which goes on to the next stage; an exception of a
\* stage ends the run, nothing in lines 241-246 catches it
StageEnds(stage, raised) ==
    /\ completed' = IF raised = "None" THEN Append(completed, stage) ELSE completed
    /\ IF running = 0
       THEN /\ running' = 0
            /\ returned' = Returned(<<stage>>, raised, None)
       ELSE IF raised # "None"
       THEN /\ running' = 0
            /\ returned' = Returned(<<"run_full_pipeline">>, raised, None)
       ELSE IF running = Len(StageOrder)
       THEN /\ running' = 0
            /\ returned' = Returned(<<"run_full_pipeline">>, "None", None)
       ELSE /\ running' = running + 1
            /\ returned' = Returned(<<stage>>, "None", None)
    /\ UNCHANGED <<loop, merged>>
    /\ UNCHANGED <<builder, threadVars>>
    /\ UNCHANGED subgraphVars
    /\ UNCHANGED resolverVars

\* run_full_pipeline (lines 228-254): the stages, one after the other
run_full_pipeline ==
    /\ running = 0
    /\ Len(completed) < MaxStages
    /\ running' = 1
    /\ returned' = NoReturn
    /\ UNCHANGED <<df, loop, merged, completed>>
    /\ UNCHANGED <<builder, threadVars>>
    /\ UNCHANGED graphVars
    /\ UNCHANGED fileVars
    /\ UNCHANGED subgraphVars
    /\ UNCHANGED resolverVars

\* load_data (lines 52-69): self.df = load_dataset(...), which re-raises
\* when the file cannot be read (archived/preprocessing.py 149-168)
load_data ==
    /\ MayCall("load_data")
    /\ \E readable \in BOOLEAN :
          IF readable
          THEN /\ df' = Some([columns |-> {"text"},
                              rows |-> <<[entities |-> <<>>, relations |-> <<>>]>>])
               /\ StageEnds("load_data", "None")
          ELSE /\ df' = df
               /\ StageEnds("load_data", "FileNotFoundError")
    /\ UNCHANGED graphVars
    /\ UNCHANGED fileVars

\* preprocess (lines 71-87)
preprocess ==
    /\ MayCall("preprocess")
    /\ IF df = None
       THEN /\ df' = df
            /\ StageEnds("preprocess", "ValueError")
       ELSE /\ df' = Some([df[1] EXCEPT !.columns = @ \cup PreprocessColumns])
            /\ StageEnds("preprocess", "None")
    /\ UNCHANGED graphVars
    /\ UNCHANGED fileVars

\* extract_entities (lines 89-118); process_dataframe adds the columns
\* 'entities' and 'entity_count' (archived/ner_extraction.py 341-371)
extract_entities ==
    /\ MayCall("extract_entities")
    /\ IF ~HasColumn(df, "normalized_text")
       THEN /\ df' = df
            /\ StageEnds("extract_entities", "ValueError")
       ELSE /\ \E found \in RowEntities :
                  df' = Some([columns |-> df[1].columns \cup {"entities", "entity_count"},
                              rows |-> [i \in 1..Len(df[1].rows) |->
                                          [df[1].rows[i] EXCEPT !.entities = found]]])
            /\ StageEnds("extract_entities", "None")
    /\ UNCHANGED graphVars
    /\ UNCHANGED fileVars

\* extract_relations (lines 120-153); process_dataframe adds the columns
\* 'relations' and 'relation_count' (relation_extraction.py 479-514)
extract_relations ==
    /\ MayCall("extract_relations")
    /\ IF ~HasColumn(df, "entities")
       THEN /\ df' = df
            /\ StageEnds("extract_relations", "ValueError")
       ELSE /\ \E found \in RowRelations(df[1].rows[1].entities) :
                  df' = Some([columns |-> df[1].columns \cup {"relations", "relation_count"},
                              rows |-> [i \in 1..Len(df[1].rows) |->
                                          [df[1].rows[i] EXCEPT !.relations = found]]])
            /\ StageEnds("extract_relations", "None")
    /\ UNCHANGED graphVars
    /\ UNCHANGED fileVars

\* build_knowledge_graph (lines 155-183): build_from_dataframe, then
\* get_statistics, then to_json, each on the graph the one before left
build_knowledge_graph ==
    /\ MayCall("build_knowledge_graph")
    /\ df' = df
    /\ IF ~HasColumn(df, "relations")
       THEN /\ StageEnds("build_knowledge_graph", "ValueError")
            /\ UNCHANGED graphVars
            /\ UNCHANGED fileVars
       ELSE LET kg == build_from_dataframe(CurrentKG, df[1].rows)
            IN  /\ BecomesKG(kg)
                /\ StageEnds("build_knowledge_graph", StatisticsRaise(kg.graph))
                /\ IF StatisticsRaise(kg.graph) # "None"
                   THEN UNCHANGED fileVars
                   ELSE /\ json_file' = Some(to_json_data(kg.graph))
                        /\ exported' = Some(kg.graph)
                        /\ file_calls' = file_calls

\* visualize_graph (lines 185-226)
visualize_graph(max_nodes, light_mode) ==
    /\ MayCall("visualize_graph")
    /\ df' = df
    /\ IF graph.nodes = <<>>
       THEN StageEnds("visualize_graph", "ValueError")
       ELSE IF light_mode /\ Len(graph.nodes) > HubThreshold
       THEN StageEnds("visualize_graph", visualize_hub_network(graph, max_nodes).raised)
       ELSE StageEnds("visualize_graph",
                      visualize_from_knowledge_graph(graph, light_mode).raised)
    /\ UNCHANGED graphVars
    /\ UNCHANGED fileVars

VisualizeGraphStep == \E light_mode \in BOOLEAN : visualize_graph(MaxVisNodes, light_mode)

NextPipeline ==
    \/ run_full_pipeline
    \/ load_data
    \/ preprocess
    \/ extract_entities
    \/ extract_relations
    \/ build_knowledge_graph
    \/ VisualizeGraphStep

PipelineSpec == Init /\ [][NextPipeline]_vars

(***************************************************************************)
(* RelationExtractor (src/relation_extraction.py).                         *)
(*                                                                         *)
(* A document is its text and its entity list.  The regular expression    *)
(* engine is not modelled: what re.finditer finds is an input, matches,    *)
(* the sequence of matches in the order in which                           *)
(* extract_relations_from_text visits them (relation types in dict order,  *)
(* the patterns of a type in list order, the matches of a pattern from     *)
(* left to right), each with its pattern and its two captured groups, and  *)
(* the text of the document holds the matched text of each of them.        *)
(***************************************************************************)
\* self.reverse_relations
reverse_relations ==
    [r \in {"child_of", "parent_of", "married_to", "sibling_of", "fought_with",
            "killed_by", "killed", "ruled_in", "ruled_by"} |->
        CASE r = "child_of" -> "parent_of"
          [] r = "parent_of" -> "child_of"
          [] r = "married_to" -> "married_to"
          [] r = "sibling_of" -> "sibling_of"
          [] r = "fought_with" -> "fought_with"
          [] r = "killed_by" -> "killed"
          [] r = "killed" -> "killed_by"
          [] r = "ruled_in" -> "ruled_by"
          [] r = "ruled_by" -> "ruled_in"]

\* patterns of _init_relation_patterns, in visiting order: the relation
\* type, the words between or around the two groups, the group numbers
PatternPutra ==
    [order |-> 1, relation |-> "child_of", lead |-> <<>>,
     mid |-> <<" ", "p", "u", "t", "r", "a", " ">>,
     subject_group |-> 1, object_group |-> 2]

PatternPutraBernama ==
    [order |-> 2, relation |-> "child_of", lead |-> <<"p", "u", "t", "r", "a", " ">>,
     mid |-> <<" ", "b", "e", "r", "n", "a", "m", "a", " ">>,
     subject_group |-> 2, object_group |-> 1]

PatternMenikah ==
    [order |-> 3, relation |-> "married_to", lead |-> <<>>,
     mid |-> <<" ", "m", "e", "n", "i", "k", "a", "h", " ", "d", "e", "n", "g", "a", "n", " ">>,
     subject_group |-> 1, object_group |-> 2]

PatternGugurDalamPerang ==
    [order |-> 4, relation |-> "died_in", lead |-> <<>>,
     mid |-> <<" ", "g", "u", "g", "u", "r", " ", "d", "i", " ", "p", "e", "r", "a", "n", "g", " ">>,
     subject_group |-> 1, object_group |-> 2]

PatternAyah ==
    [order |-> 5, relation |-> "parent_of", lead |-> <<>>,
     mid |-> <<" ", "a", "y", "a", "h", " ">>,
     subject_group |-> 1, object_group |-> 2]

Patterns ==
    {PatternPutra, PatternPutraBernama, PatternMenikah, PatternGugurDalamPerang,
     PatternAyah}

\* match.group(n) for n = 0, 1, 2
Group(m, n) ==
    CASE n = 1 -> m.group1
      [] n = 2 -> m.group2
      [] OTHER -> m.pattern.lead \o m.group1 \o m.pattern.mid \o m.group2

NoEntity == 0

\* _find_entity: the position in entities of the entity found, NoEntity for None
_find_entity(text, ents) ==
    LET text_lower == Lower(text)
        exact == {i \in 1..Len(ents) : Lower(ents[i].text) = text_lower}
        partial == {i \in 1..Len(ents) :
                      LET entity_lower == Lower(ents[i].text)
                      IN  /\ \/ IsSubstring(text_lower, entity_lower)
                             \/ IsSubstring(entity_lower, text_lower)
                          /\ Len(entity_lower) * 10 >= Len(text_lower) * 7}
        first(S) == CHOOSE i \in S : \A j \in S : i <= j
    IN  IF exact # {} THEN first(exact)
        ELSE IF partial # {} THEN first(partial)
        ELSE NoEntity

PatternConfidence == 80

ProximityConfidence == 50

\* the relation dict built from one match whose two groups were resolved
MatchRelation(m, subject_entity, object_entity) ==
    [subject |-> subject_entity.text, subject_type |-> subject_entity.type,
     relation |-> m.pattern.relation,
     object |-> object_entity.text, object_type |-> object_entity.type,
     context |-> Group(m, 0), confidence |-> PatternConfidence,
     dynamic_label |-> "None"]

\* lines 248-279: the relations one match appends (none or one)
MatchRelations(m, ents) ==
    LET subject_text == Strip(Group(m, m.pattern.subject_group))
        object_text == Strip(Group(m, m.pattern.object_group))
        subject_entity == _find_entity(subject_text, ents)
        object_entity == _find_entity(object_text, ents)
    IN  IF subject_entity # NoEntity /\ object_entity # NoEntity
        THEN <<MatchRelation(m, ents[subject_entity], ents[object_entity])>>
        ELSE <<>>

RelationKey(relation) ==
    <<Lower(relation.subject), relation.relation, Lower(relation.object)>>

RECURSIVE DedupFrom_LastWins(_, _)
\* DedupFrom with a later relation of a seen key put in place of the kept one
DedupFrom_LastWins(unique_relations, rels) ==
    IF rels = <<>> THEN unique_relations
    ELSE DedupFrom_LastWins(
            IF \E i \in 1..Len(unique_relations) :
                   RelationKey(unique_relations[i]) = RelationKey(Head(rels))
            THEN [i \in 1..Len(unique_relations) |->
                    IF RelationKey(unique_relations[i]) = RelationKey(Head(rels))
                    THEN Head(rels)
                    ELSE unique_relations[i]]
            ELSE Append(unique_relations, Head(rels)),
            Tail(rels))

RECURSIVE DedupFrom(_, _)
\* the loop of _deduplicate_relations: unique_relations after the rest rels
DedupFrom(unique_relations, rels) ==
    IF rels = <<>> THEN unique_relations
    ELSE DedupFrom(
            IF \E i \in 1..Len(unique_relations) :
                   RelationKey(unique_relations[i]) = RelationKey(Head(rels))
            THEN unique_relations
            ELSE Append(unique_relations, Head(rels)),
            Tail(rels))

_deduplicate_relations(rels) == DedupFrom(<<>>, rels)

extract_relations_from_text(ms, ents) ==
    _deduplicate_relations(
        ConcatAll([i \in 1..Len(ms) |-> MatchRelations(ms[i], ents)]))

\* ReverseOf with subject and object left where they are
ReverseOf_NoSwap(relation) ==
    IF relation.relation \in DOMAIN reverse_relations
       /\ relation.relation # reverse_relations[relation.relation]
    THEN <<[relation EXCEPT !.relation = reverse_relations[relation.relation]]>>
    ELSE <<>>

\* lines 325-354: the reverse relations one relation contributes
ReverseOf(relation) ==
    IF relation.relation \in DOMAIN reverse_relations
       /\ relation.relation # reverse_relations[relation.relation]
    THEN <<[subject |-> relation.object, subject_type |-> relation.object_type,
            relation |-> reverse_relations[relation.relation],
            object |-> relation.subject, object_type |-> relation.subject_type,
            context |-> relation.context, confidence |-> relation.confidence,
            dynamic_label |-> "None"]>>
    ELSE <<>>

_add_reverse_relations(rels) ==
    rels \o ConcatAll([i \in 1..Len(rels) |-> ReverseOf(rels[i])])

RECURSIVE SplitFrom(_, _, _)
\* str.split('.'): the pieces before, current the piece being read, rest unread
SplitFrom(pieces, current, rest) ==
    IF rest = <<>> THEN Append(pieces, current)
    ELSE IF Head(rest) = "."
         THEN SplitFrom(Append(pieces, current), <<>>, Tail(rest))
         ELSE SplitFrom(pieces, Append(current, Head(rest)), Tail(rest))

SplitSentences(t) == SplitFrom(<<>>, <<>>, t)

ConnectiveWords ==
    {<<"d", "a", "n">>, <<"d", "e", "n", "g", "a", "n">>,
     <<"b", "e", "r", "s", "a", "m", "a">>}

LocativeWords == {<<"d", "i">>, <<"k", "e">>, <<"d", "a", "r", "i">>}

EventWords ==
    {<<"d", "a", "l", "a", "m">>, <<"s", "a", "a", "t">>,
     <<"k", "e", "t", "i", "k", "a">>}

\* any(word in sentence.lower() for word in words)
AnyWordIn(words, sentence) == \E w \in words : IsSubstring(w, Lower(sentence))

\* lines 441-454: the relation type inferred for the pair (e1, e2)
ProximityRelationType(e1, e2, sentence) ==
    IF e1.type = "PERSON" /\ e2.type = "PERSON" THEN "associated_with"
    ELSE IF e1.type = "PERSON" /\ e2.type = "LOC"
         THEN IF AnyWordIn(LocativeWords, sentence) THEN "located_in"
              ELSE "associated_with"
    ELSE IF e1.type = "PERSON" /\ e2.type = "EVENT"
         THEN IF AnyWordIn(EventWords, sentence) THEN "participated_in"
              ELSE "associated_with"
    ELSE IF e1.type = "PERSON" /\ e2.type = "ORG" THEN "member_of"
    ELSE "associated_with"

ProximityRelation(e1, e2, sentence) ==
    [subject |-> e1.text, subject_type |-> e1.type,
     relation |-> ProximityRelationType(e1, e2, sentence),
     object |-> e2.text, object_type |-> e2.type,
     context |-> Strip(sentence), confidence |-> ProximityConfidence,
     dynamic_label |-> "None"]

\* lines 438-475: the pairs (e1, e2) of one sentence, e1 before e2
SentencePairs(sentence_entities, sentence) ==
    LET n == Len(sentence_entities)
        row(i) == [k \in 1..(n - i) |->
                      ProximityRelation(sentence_entities[i],
                                        sentence_entities[i + k], sentence)]
    IN  ConcatAll([i \in 1..(n - 1) |-> row(i)])

\* lines 430-475: the relations one sentence contributes
SentenceRelations(sentence, person_entities) ==
    LET sentence_entities ==
            SelectSeq(person_entities,
                      LAMBDA e : IsSubstring(Lower(e.text), Lower(sentence)))
    IN  IF Len(sentence_entities) >= 2 /\ AnyWordIn(ConnectiveWords, sentence)
        THEN SentencePairs(sentence_entities, sentence)
        ELSE <<>>

_extract_proximity_relations(t, ents) ==
    LET person_entities == SelectSeq(ents, LAMBDA e : e.type = "PERSON")
        sents == SplitSentences(t)
    IN  ConcatAll([i \in 1..Len(sents) |-> SentenceRelations(sents[i], person_entities)])

\* LowCoverage with <= in place of <
LowCoverage_AtMost(rels, ents) == Len(rels) * 10 <= Len(ents) * 3

\* line 304: len(relations) < len(entities) * 0.3
LowCoverage(rels, ents) == Len(rels) * 10 < Len(ents) * 3

(***************************************************************************)
(* Documents handed to the resolver.                                       *)
(***************************************************************************)
EntityPool ==
    {[text |-> <<"P">>, type |-> "PERSON"],
     [text |-> <<"K">>, type |-> "PERSON"],
     [text |-> <<"P", "K">>, type |-> "LOC"]}

Spans == {<<"P">>, <<"k">>}

\* what a document says after the sentences the patterns matched
Tails ==
    {<<"P", " ", "d", "a", "n", " ", "K", " ">>,
     <<"K", " ", "P">>}

MatchPool == [pattern : Patterns, group1 : Spans, group2 : Spans]

\* matches come in the visiting order of the patterns
InVisitingOrder(ms) ==
    \A i, j \in 1..Len(ms) : i < j => ms[i].pattern.order <= ms[j].pattern.order

\* the text of a document: one sentence per match, which is the matched
\* text match.group(0), and a last sentence
DocumentText(ms, tail) ==
    ConcatAll([i \in 1..Len(ms) |-> Group(ms[i], 0) \o <<".", " ">>]) \o tail

InitResolver ==
    /\ entities \in SeqsUpTo(EntityPool, MaxEntities)
    /\ matches \in {ms \in SeqsUpTo(MatchPool, MaxMatches) : InVisitingOrder(ms)}
    /\ \E tail \in Tails : doc_text = DocumentText(matches, tail)
    /\ relations = <<>>
    /\ pattern_relations = <<>>
    /\ dedup_input = <<>>
    /\ pc = "start"

(***************************************************************************)
(* extract_relations_from_entities, one action per statement.              *)
(***************************************************************************)
\* line 298
ExtractPatternRelations ==
    /\ pc = "start"
    /\ relations' = extract_relations_from_text(matches, entities)
    /\ pattern_relations' = relations'
    /\ pc' = "reverse"
    /\ UNCHANGED <<entities, matches, doc_text, dedup_input>>
    /\ UNCHANGED graphVars
    /\ UNCHANGED <<fileVars, subgraphVars, returned, componentVars>>

\* line 301
AddReverseRelations ==
    /\ pc = "reverse"
    /\ relations' = _add_reverse_relations(relations)
    /\ pc' = "proximity"
    /\ UNCHANGED <<entities, matches, doc_text, pattern_relations, dedup_input>>
    /\ UNCHANGED graphVars
    /\ UNCHANGED <<fileVars, subgraphVars, returned, componentVars>>

\* lines 304-306
ProximityInference ==
    /\ pc = "proximity"
    /\ relations' = IF LowCoverage(relations, entities)
                    THEN relations \o _extract_proximity_relations(doc_text, entities)
                    ELSE relations
    /\ pc' = "deduplicate"
    /\ UNCHANGED <<entities, matches, doc_text, pattern_relations, dedup_input>>
    /\ UNCHANGED graphVars
    /\ UNCHANGED <<fileVars, subgraphVars, returned, componentVars>>

\* lines 309-311
DeduplicateRelations ==
    /\ pc = "deduplicate"
    /\ relations' = _deduplicate_relations(relations)
    /\ dedup_input' = relations
    /\ pc' = "done"
    /\ UNCHANGED <<entities, matches, doc_text, pattern_relations>>
    /\ UNCHANGED graphVars
    /\ UNCHANGED <<fileVars, subgraphVars, returned, componentVars>>

NextResolver ==
    \/ ExtractPatternRelations
    \/ AddReverseRelations
    \/ ProximityInference
    \/ DeduplicateRelations

ResolverInit == InitGraph /\ InitResolver /\ IdleStore /\ IdleComponents

ResolverSpec == ResolverInit /\ [][NextResolver]_vars

(***************************************************************************)
(* extract_relations_from_entities on documents with many entities: the    *)
(* entity list is a prefix of a run of mentions of the same three          *)
(* entities, long enough for 30% of its length to pass whole numbers.      *)
(***************************************************************************)
Mentions ==
    <<[text |-> <<"P">>, type |-> "PERSON"],
      [text |-> <<"K">>, type |-> "PERSON"],
      [text |-> <<"P", "K">>, type |-> "LOC"]>>

\* the first n mentions of the document
EntityMentions(n) == [i \in 1..n |-> Mentions[((i - 1) % Len(Mentions)) + 1]]

InitCoverage ==
    /\ \E n \in 0..MaxDocEntities : entities = EntityMentions(n)
    /\ matches \in {ms \in SeqsUpTo(MatchPool, MaxMatches) : InVisitingOrder(ms)}
    /\ \E tail \in Tails : doc_text = DocumentText(matches, tail)
    /\ relations = <<>>
    /\ pattern_relations = <<>>
    /\ dedup_input = <<>>
    /\ pc = "start"

CoverageInit == InitGraph /\ InitCoverage /\ IdleStore /\ IdleComponents

CoverageSpec == CoverageInit /\ [][NextResolver]_vars

(***************************************************************************)
(* extract_relations_from_entities on documents no pattern matches, with   *)
(* entities of several types named in one sentence.                        *)
(***************************************************************************)
TypedEntityPool ==
    {[text |-> <<"P">>, type |-> "PERSON"],
     [text |-> <<"K">>, type |-> "PERSON"],
     [text |-> <<"L">>, type |-> "LOC"],
     [text |-> <<"O">>, type |-> "ORG"]}

TypedTexts ==
    {<<"P", " ", "d", "a", "n", " ", "L">>,
     <<"P", " ", "d", "i", " ", "L", " ", "d", "a", "n", " ", "O", ".", " ", "K">>,
     <<"K", " ", "P">>}

InitTyped ==
    /\ entities \in SeqsUpTo(TypedEntityPool, MaxEntities)
    /\ matches = <<>>
    /\ doc_text \in TypedTexts
    /\ relations = <<>>
    /\ pattern_relations = <<>>
    /\ dedup_input = <<>>
    /\ pc = "start"

TypedInit == InitGraph /\ InitTyped /\ IdleStore /\ IdleComponents

TypedSpec == TypedInit /\ [][NextResolver]_vars

(***************************************************************************)
(* _find_entity on its own: captured spans resolved against entity lists   *)
(* whose texts contain one another.                                        *)
(***************************************************************************)
NamedEntityPool ==
    {[text |-> <<"P">>, type |-> "PERSON"],
     [text |-> <<"p", "k">>, type |-> "PERSON"],
     [text |-> <<"P", "K", "P">>, type |-> "LOC"],
     [text |-> <<"K", "P", "K", "P">>, type |-> "PERSON"]}

CapturedSpans == {<<"p">>, <<"P", "K">>, <<"k", "p", "k">>, <<"K", "K">>}

\* self._find_entity(text, entities): the entity found, or None
call_find_entity(text) ==
    Query(<<"_find_entity", text>>, "None",
          IF _find_entity(text, entities) = NoEntity
          THEN None
          ELSE Some(entities[_find_entity(text, entities)]))

InitNamed ==
    /\ entities \in SeqsUpTo(NamedEntityPool, MaxEntities)
    /\ matches = <<>>
    /\ doc_text = <<>>
    /\ relations = <<>>
    /\ pattern_relations = <<>>
    /\ dedup_input = <<>>
    /\ pc = "start"

FindEntityInit == InitGraph /\ InitNamed /\ IdleStore /\ IdleComponents

NextFindEntity == \E text \in CapturedSpans : call_find_entity(text)

FindEntitySpec == FindEntityInit /\ [][NextFindEntity]_vars

(***************************************************************************)
(* _deduplicate_relations on its own: the last statement of                *)
(* extract_relations_from_entities applied to any list of relations, the   *)
(* same entity in more than one letter case included.                      *)
(***************************************************************************)
\* relations in one call's list
MaxTriples == 3

TriplePool ==
    [subject : {<<"P">>, <<"p">>}, subject_type : {"PERSON"},
     relation : {"child_of", "married_to"},
     object : {<<"K">>}, object_type : {"PERSON"},
     context : {<<"P", " ", "K">>, <<"K", " ", "p">>},
     confidence : {PatternConfidence, ProximityConfidence},
     dynamic_label : {"None"}]

InitDedup ==
    /\ InitGraph
    /\ IdleStore
    /\ IdleComponents
    /\ entities = <<>>
    /\ matches = <<>>
    /\ doc_text = <<>>
    /\ relations \in SeqsUpTo(TriplePool, MaxTriples)
    /\ pattern_relations = <<>>
    /\ dedup_input = <<>>
    /\ pc = "deduplicate"

NextDedup == DeduplicateRelations

DedupSpec == InitDedup /\ [][NextDedup]_vars

(***************************************************************************)
(* What the recorded calls say about one id and one ordered pair.          *)
(***************************************************************************)
\* positions of the add_entity calls whose trimmed text is id
EntityCallsFor(id) == {i \in 1..Len(entity_calls) : Strip(entity_calls[i].name) = id}

TypeObservations(id, t) ==
    Cardinality({i \in EntityCallsFor(id) : entity_calls[i].type = t})

ObservedTypes == EntityTypes \cup {"UNKNOWN"}

\* the add_relation calls made for the ordered pair (u, v), in call order
PairCalls(u, v) ==
    SelectSeq(relation_calls, LAMBDA c : Strip(c.subject) = u /\ Strip(c.obj) = v)

PairLabels(u, v) ==
    FirstSeen(<<>>, [i \in 1..Len(PairCalls(u, v)) |-> PairCalls(u, v)[i].relation])

CalledPairs ==
    {<<Strip(relation_calls[i].subject), Strip(relation_calls[i].obj)>> :
        i \in 1..Len(relation_calls)}

(***************************************************************************)
(* Claims on KnowledgeGraph.add_entity and KnowledgeGraph.add_relation.    *)
(***************************************************************************)

\* C1: every node's type is a most frequent type among the type
\* observations (add_entity calls) made for its id: no other type was
\* observed more often.
C1_TypeIsMostFrequent ==
    \A i \in 1..Len(graph.nodes) :
        \A t \in ObservedTypes :
            TypeObservations(graph.nodes[i].id, graph.nodes[i].type)
                >= TypeObservations(graph.nodes[i].id, t)

\* C2: every trimmed text passed to add_entity is a node, and a node's count
\* is the number of add_entity calls whose trimmed text is the node's id.
C2_CountIsNumberOfCalls ==
    /\ \A i \in 1..Len(entity_calls) : has_node(graph, Strip(entity_calls[i].name))
    /\ \A i \in 1..Len(graph.nodes) :
          graph.nodes[i].count = Cardinality(EntityCallsFor(graph.nodes[i].id))

\* C2 witness: a node counted twice, one of the calls with untrimmed text
C2_Witness ==
    \E i \in 1..Len(graph.nodes) :
        /\ graph.nodes[i].count >= 2
        /\ \E j \in EntityCallsFor(graph.nodes[i].id) :
              entity_calls[j].name # graph.nodes[i].id

\* C3: at most one edge per ordered (source, target) pair; every pair that
\* add_relation was called for has an edge, every edge comes from such a
\* call, and the edge's relations are the labels added for the pair, each
\* once, in first-seen order.
C3_OneEdgePerPair ==
    /\ \A i, j \in 1..Len(graph.edges) :
          (graph.edges[i].source = graph.edges[j].source
           /\ graph.edges[i].target = graph.edges[j].target) => i = j
    /\ \A p \in CalledPairs : has_edge(graph, p[1], p[2])
    /\ \A i \in 1..Len(graph.edges) :
          /\ <<graph.edges[i].source, graph.edges[i].target>> \in CalledPairs
          /\ graph.edges[i].relations
                = PairLabels(graph.edges[i].source, graph.edges[i].target)

\* C3 witness: an edge with two labels after three calls for its pair
C3_Witness ==
    \E i \in 1..Len(graph.edges) :
        /\ Len(graph.edges[i].relations) = 2
        /\ Len(PairCalls(graph.edges[i].source, graph.edges[i].target)) = 3

\* C4: an edge's count is the number of add_relation calls made for its
\* ordered pair, calls with a label the edge already has included.
C4_EdgeCountIsNumberOfCalls ==
    \A i \in 1..Len(graph.edges) :
        graph.edges[i].count
            = Len(PairCalls(graph.edges[i].source, graph.edges[i].target))

\* C5: an edge's confidence is the confidence argument of the most recent
\* add_relation call for its ordered pair.
C5_ConfidenceIsLastWrite ==
    \A i \in 1..Len(graph.edges) :
        LET calls == PairCalls(graph.edges[i].source, graph.edges[i].target)
        IN  calls # <<>> => graph.edges[i].confidence = calls[Len(calls)].confidence

\* both endpoints of every edge are nodes
EdgesClosed ==
    \A i \in 1..Len(graph.edges) :
        /\ has_node(graph, graph.edges[i].source)
        /\ has_node(graph, graph.edges[i].target)

\* an add_relation step creates each endpoint that was no node, with type
\* UNKNOWN and count 1, and leaves the edge of the pair in the graph
AddRelationCreatesEndpoints ==
    Len(relation_calls') = Len(relation_calls) + 1 =>
        LET c == relation_calls'[Len(relation_calls')]
            s == Strip(c.subject)
            o == Strip(c.obj)
        IN  /\ has_edge(graph', s, o)
            /\ \A x \in {s, o} :
                  ~has_node(graph, x) =>
                      /\ has_node(graph', x)
                      /\ NodeOf(graph', x).type = "UNKNOWN"
                      /\ NodeOf(graph', x).count = 1

\* C6: in every reachable state both endpoints of every edge are nodes, and
\* add_relation on an endpoint that is no node yet first creates it with
\* type UNKNOWN and count 1.
C6_EndpointsAreNodes == []EdgesClosed /\ [][AddRelationCreatesEndpoints]_vars

\* C6 witness: an edge between two nodes that only add_relation created
C6_Witness ==
    \E i \in 1..Len(graph.edges) :
        /\ graph.edges[i].source # graph.edges[i].target
        /\ \A x \in {graph.edges[i].source, graph.edges[i].target} :
              /\ has_node(graph, x)
              /\ NodeOf(graph, x).type = "UNKNOWN"
              /\ \A j \in EntityCallsFor(x) : entity_calls[j].via = "add_relation"

\* positions of the add_entity calls whose trimmed text is id up to letter case
EntityCallsForIgnoringCase(id) ==
    {i \in 1..Len(entity_calls) : Lower(Strip(entity_calls[i].name)) = Lower(id)}

\* C7: node identity is case-insensitive and display is case-preserving: no
\* two nodes differ only in letter case, a node's id is the first-seen form
\* and its count is the number of calls with that text in any letter case.
C7_IdentityIsCaseInsensitive ==
    /\ \A i, j \in 1..Len(graph.nodes) :
          Lower(graph.nodes[i].id) = Lower(graph.nodes[j].id) => i = j
    /\ \A i \in 1..Len(graph.nodes) :
          LET same == EntityCallsForIgnoringCase(graph.nodes[i].id)
          IN  /\ graph.nodes[i].count = Cardinality(same)
              /\ \A j \in same :
                    (\A k \in same : j <= k) =>
                        Strip(entity_calls[j].name) = graph.nodes[i].id

\* a public add_entity call whose trimmed text is empty
EmptyAddEntityStep ==
    /\ Len(entity_calls') = Len(entity_calls) + 1
    /\ entity_calls'[Len(entity_calls')].via = "api"
    /\ Strip(entity_calls'[Len(entity_calls')].name) = <<>>

\* C8: add_entity with a text whose trimmed form is empty is a no-op: it
\* creates no node and changes no count and no metadata.
C8_EmptyNameIsNoOp ==
    [][EmptyAddEntityStep =>
          /\ graph' = graph
          /\ entity_metadata' = entity_metadata]_vars

(***************************************************************************)
(* Claims on RelationExtractor.extract_relations_from_entities.            *)
(***************************************************************************)

\* C9: extract_relations_from_entities returns no triple whose subject and
\* object are the same entity.
C9_NoSelfRelations ==
    pc = "done" =>
        \A i \in 1..Len(relations) : relations[i].subject # relations[i].object

HasInverse(r) ==
    /\ r.relation \in DOMAIN reverse_relations
    /\ reverse_relations[r.relation] # r.relation

\* positions in the output of the triples (subject, relation, object)
OutputTriples(subject, relation, object) ==
    {j \in 1..Len(relations) :
        /\ relations[j].subject = subject
        /\ relations[j].relation = relation
        /\ relations[j].object = object}

\* the pattern-derived triples (subject, relation, object)
PatternTriples(subject, relation, object) ==
    {j \in 1..Len(pattern_relations) :
        /\ pattern_relations[j].subject = subject
        /\ pattern_relations[j].relation = relation
        /\ pattern_relations[j].object = object}

\* C10 as stated: for every pattern-derived triple (A, r, B) with an inverse
\* r' # r the output holds (B, r', A) with the context and confidence of
\* (A, r, B), and holds (A, r, B) exactly once.  Stated for A # B, the
\* triples the claim is about (A = B is the case of C9).
C10_InverseWithSameContext ==
    pc = "done" =>
        \A i \in 1..Len(pattern_relations) :
            LET p == pattern_relations[i]
            IN  (HasInverse(p) /\ p.subject # p.object) =>
                    /\ \E j \in OutputTriples(p.object, reverse_relations[p.relation],
                                              p.subject) :
                          /\ relations[j].context = p.context
                          /\ relations[j].confidence = p.confidence
                    /\ Cardinality(OutputTriples(p.subject, p.relation, p.object)) = 1

\* C10 amended: for every pattern-derived triple (A, r, B) with an inverse
\* r' # r the output holds (A, r, B) exactly once, as matched, and holds
\* (B, r', A) exactly once, with the confidence of (A, r, B); that triple is
\* the pattern-derived (B, r', A), with its own context, when a pattern
\* matched one, and otherwise the inverse of (A, r, B) with its context.
C10_InverseDerived ==
    pc = "done" =>
        \A i \in 1..Len(pattern_relations) :
            LET p == pattern_relations[i]
                inverse == reverse_relations[p.relation]
                matched == PatternTriples(p.object, inverse, p.subject)
            IN  HasInverse(p) =>
                    /\ \A j \in OutputTriples(p.subject, p.relation, p.object) :
                          relations[j] = p
                    /\ Cardinality(OutputTriples(p.subject, p.relation, p.object)) = 1
                    /\ Cardinality(OutputTriples(p.object, inverse, p.subject)) = 1
                    /\ \A j \in OutputTriples(p.object, inverse, p.subject) :
                          /\ relations[j].confidence = p.confidence
                          /\ relations[j].subject_type = p.object_type
                          /\ relations[j].object_type = p.subject_type
                          /\ IF matched = {}
                             THEN relations[j].context = p.context
                             ELSE \E k \in matched : relations[j] = pattern_relations[k]

\* C10 witness: the output for a document in which patterns matched both
\* (A, child_of, B) and (B, parent_of, A), in different places of the text
C10_Witness ==
    /\ pc = "done"
    /\ \E i, k \in 1..Len(pattern_relations) :
          /\ pattern_relations[i].relation = "child_of"
          /\ pattern_relations[k].relation = "parent_of"
          /\ pattern_relations[i].subject # pattern_relations[i].object
          /\ pattern_relations[k].subject = pattern_relations[i].object
          /\ pattern_relations[k].object = pattern_relations[i].subject
          /\ pattern_relations[k].context # pattern_relations[i].context

\* a relation type that is its own inverse
IsSymmetric(relation) ==
    /\ relation \in DOMAIN reverse_relations
    /\ reverse_relations[relation] = relation

\* C11: for every pattern-derived triple (A, r, B) of a symmetric relation r
\* (married_to), A # B, the output holds exactly two r triples for the pair:
\* (A, r, B) once and (B, r, A) once.
C11_SymmetricBothDirections ==
    pc = "done" =>
        \A i \in 1..Len(pattern_relations) :
            LET p == pattern_relations[i]
            IN  (IsSymmetric(p.relation) /\ p.subject # p.object) =>
                    /\ Cardinality(OutputTriples(p.subject, p.relation, p.object)) = 1
                    /\ Cardinality(OutputTriples(p.object, p.relation, p.subject)) = 1

(***************************************************************************)
(* Claim on RelationExtractor._deduplicate_relations.                      *)
(***************************************************************************)
\* positions in s of the relations no earlier relation of s shares the key of
FirstOfKey(s) ==
    {i \in 1..Len(s) : \A j \in 1..(i - 1) : RelationKey(s[j]) # RelationKey(s[i])}

\* the k-th smallest element of the set of positions F
NthOf(F, k) == CHOOSE i \in F : Cardinality({j \in F : j < i}) = k - 1

\* C12: the returned list holds no two triples with the same key (subject
\* lower-cased, relation, object lower-cased); it is the input list reduced
\* to the earliest triple of each key, each as it was (confidence and
\* context included), in the input's order.
C12_FirstSeenWins ==
    pc = "done" =>
        /\ \A i, j \in 1..Len(relations) :
              RelationKey(relations[i]) = RelationKey(relations[j]) => i = j
        /\ Len(relations) = Cardinality(FirstOfKey(dedup_input))
        /\ \A k \in 1..Len(relations) :
              relations[k] = dedup_input[NthOf(FirstOfKey(dedup_input), k)]

\* C12 witness: a returned list from whose input a later triple was dropped
\* that differs from the kept one in letter case, confidence and context,
\* with a triple of another key after it
C12_Witness ==
    /\ pc = "done"
    /\ \E i, j, k \in 1..Len(dedup_input) :
          /\ i < j /\ j < k
          /\ RelationKey(dedup_input[i]) = RelationKey(dedup_input[j])
          /\ dedup_input[i].subject # dedup_input[j].subject
          /\ dedup_input[i].context # dedup_input[j].context
          /\ dedup_input[i].confidence # dedup_input[j].confidence
          /\ RelationKey(dedup_input[k]) # RelationKey(dedup_input[i])
    /\ Len(relations) = 2

(***************************************************************************)
(* Claims on KnowledgeGraph.to_json and KnowledgeGraph.from_json.          *)
(***************************************************************************)
\* the last call was from_json on the file the last to_json wrote
LoadedExportedFile ==
    /\ Len(returned.call) = 2
    /\ returned.call[1] = "from_json"
    /\ json_file # None
    /\ returned.call[2] = json_file

\* C13: when a graph g built via add_entity/add_relation was exported with
\* to_json and the file is loaded with from_json, the load succeeds and the
\* loaded graph has the nodes of g (id, type, count, in order), the edges of
\* g (source, target, relations, count, confidence, in iteration order) and
\* the get_statistics() of g, field for field.
C13_RoundTrip ==
    LoadedExportedFile =>
        /\ returned.raised = "None"
        /\ graph.nodes = exported[1].nodes
        /\ edges_view(graph) = edges_view(exported[1])
        /\ Range(graph.edges) = Range(exported[1].edges)
        /\ get_statistics(graph) = get_statistics(exported[1])

\* C13 witness: a loaded graph with a PERSON node and two edges, exported
\* from a graph whose edges were added in another order than edges() visits
\* them
C13_Witness ==
    /\ LoadedExportedFile
    /\ Len(graph.edges) = 2
    /\ exported[1].edges # edges_view(exported[1])
    /\ \E i \in 1..Len(graph.nodes) : graph.nodes[i].type = "PERSON"

\* a from_json call that failed on a key the document lacks
FromJsonKeyError ==
    /\ file_calls' = file_calls + 1
    /\ Len(returned'.call) = 2
    /\ returned'.call[1] = "from_json"
    /\ returned'.raised = "KeyError"

\* C14: a from_json call that fails because the document lacks a required
\* key leaves the graph's nodes, edges and metadata as they were before the
\* call.
C14_ImportAllOrNothing ==
    [][FromJsonKeyError =>
          /\ graph' = graph
          /\ entity_metadata' = entity_metadata
          /\ relation_metadata' = relation_metadata]_vars

(***************************************************************************)
(* Claims on the views and the queries.  In a state whose returned.call    *)
(* names a query, graph is the graph the query was made on.                *)
(***************************************************************************)
LastCall(name) == Len(returned.call) > 0 /\ returned.call[1] = name

\* the edges of the graph that have c as source or target
EdgesAt(c) == {e \in Range(graph.edges) : e.source = c \/ e.target = c}

Ends(E) == {e.source : e \in E} \cup {e.target : e \in E}

Pairs(E) == {<<e.source, e.target>> : e \in E}

\* the edges of the graph with both ends in the set of ids N
EdgesAmong(N) == {e \in Range(graph.edges) : e.source \in N /\ e.target \in N}

\* C15: the ego view of an existing id c renders the nodes {c} with all
\* successors and predecessors of c, and exactly the edges of the graph that
\* have c as source or target: no edge between two nodes other than c.
C15_EgoView ==
    (LastCall("visualize_entity_direct_relations") /\ has_node(graph, returned.call[2])) =>
        LET c == returned.call[2]
        IN  /\ returned.raised = "None"
            /\ returned.value # None
            /\ returned.value[1].nodes = {c} \cup Ends(EdgesAt(c))
            /\ Range(returned.value[1].edges) = Pairs(EdgesAt(c))
            /\ \A e \in Range(returned.value[1].edges) : e[1] = c \/ e[2] = c

\* C15 witness: the ego view of a node with a successor and a predecessor
\* that have an edge between them in the graph
C15_Witness ==
    /\ LastCall("visualize_entity_direct_relations")
    /\ returned.value # None
    /\ \E u, v \in returned.value[1].nodes :
          /\ u # returned.call[2] /\ v # returned.call[2] /\ u # v
          /\ has_edge(graph, u, returned.call[2])
          /\ has_edge(graph, returned.call[2], v)
          /\ has_edge(graph, u, v)

\* total degree of the node at position i, from the edge list
TotalDegree(i) ==
    Cardinality({j \in 1..Len(graph.edges) : graph.edges[j].source = graph.nodes[i].id})
    + Cardinality({j \in 1..Len(graph.edges) : graph.edges[j].target = graph.nodes[i].id})

\* H holds the positions of the k nodes of highest total degree, or of all
\* nodes when there are fewer, a node inserted earlier going before a node
\* of the same degree
IsHubSet(H, k) ==
    /\ Cardinality(H) = IF k < Len(graph.nodes) THEN k ELSE Len(graph.nodes)
    /\ \A i \in H, j \in (1..Len(graph.nodes)) \ H :
          \/ TotalDegree(i) > TotalDegree(j)
          \/ (TotalDegree(i) = TotalDegree(j) /\ i < j)

RECURSIVE ReachWithin(_, _)
\* the ids reachable from c in at most d steps along edges in either direction
ReachWithin(c, d) ==
    IF d = 0 THEN {c}
    ELSE LET near == ReachWithin(c, d - 1)
         IN  near \cup Ends(UNION {EdgesAt(n) : n \in near})

\* C17: get_subgraph(id, depth) on an existing id returns a graph whose nodes
\* are exactly the nodes reachable from id in at most depth steps along
\* edges in either direction and whose edges are all the edges of the graph
\* between these nodes; for depth 1 it has the ego view's nodes and all the
\* ego view's edges.
C17_SubgraphIsInduced ==
    (LastCall("get_subgraph") /\ has_node(graph, returned.call[2])) =>
        LET c == returned.call[2]
            depth == returned.call[3]
            sub == returned.value[1].graph
        IN  /\ NodeIds(sub) = ReachWithin(c, depth)
            /\ Range(sub.edges) = EdgesAmong(ReachWithin(c, depth))
            /\ Range(sub.nodes) \subseteq Range(graph.nodes)
            /\ depth = 1 =>
                  /\ NodeIds(sub) = {c} \cup Ends(EdgesAt(c))
                  /\ Pairs(EdgesAt(c)) \subseteq Pairs(Range(sub.edges))

\* C17 witness: a depth-1 subgraph around a node whose one neighbour is a
\* predecessor, in a graph with a third node two steps away
C17_Witness ==
    /\ LastCall("get_subgraph")
    /\ returned.value # None
    /\ returned.call[3] = 1
    /\ successors(graph, returned.call[2]) = <<>>
    /\ Cardinality(NodeIds(returned.value[1].graph)) = 2
    /\ Cardinality(ReachWithin(returned.call[2], 2)) = 3

\* p is a simple directed path of the graph from s to t with at most m edges
IsSimplePath(p, s, t, m) ==
    /\ Len(p) >= 1
    /\ Len(p) - 1 <= m
    /\ p[1] = s
    /\ p[Len(p)] = t
    /\ \A i \in 1..Len(p) : p[i] \in NodeIds(graph)
    /\ \A i \in 1..(Len(p) - 1) :
          \E e \in Range(graph.edges) : e.source = p[i] /\ e.target = p[i + 1]
    /\ \A i, j \in 1..Len(p) : p[i] = p[j] => i = j

\* C19: find_path(source, target, max_length) returns exactly the simple
\* directed paths from source to target with at most max_length edges:
\* every returned path is one and is returned once, and every such path of
\* one edge or more is returned; [] when there is none.  (The path of no
\* edge, [source] for source = target, is returned or not, by the networkx
\* version.)
C19_FindPath ==
    LastCall("find_path") =>
        LET s == returned.call[2]
            t == returned.call[3]
            m == returned.call[4]
            paths == returned.value[1]
        IN  /\ returned.raised = "None"
            /\ \A i \in 1..Len(paths) : IsSimplePath(paths[i], s, t, m)
            /\ \A i, j \in 1..Len(paths) : paths[i] = paths[j] => i = j
            /\ \A p \in SeqsUpTo(NodeIds(graph), m + 1) :
                  (Len(p) >= 2 /\ IsSimplePath(p, s, t, m)) => p \in Range(paths)

\* C19 witness: two paths returned, of one and of two edges, for a pair
\* that has a path of three nodes
C19_Witness ==
    /\ LastCall("find_path")
    /\ Len(returned.value[1]) = 2
    /\ \E i, j \in 1..2 : Len(returned.value[1][i]) = 2 /\ Len(returned.value[1][j]) = 3

\* the last call was a lookup of an id that is no node of the graph
LookupMiss ==
    \/ /\ \/ LastCall("get_entity_info")
          \/ LastCall("get_subgraph")
          \/ LastCall("visualize_entity_direct_relations")
       /\ ~has_node(graph, returned.call[2])
    \/ /\ LastCall("find_path")
       /\ ~has_node(graph, returned.call[2]) \/ ~has_node(graph, returned.call[3])

\* a lookup miss raised nothing and returned None, [] for find_path
MissReturnsNothing ==
    LookupMiss =>
        /\ returned.raised = "None"
        /\ returned.value = IF LastCall("find_path") THEN Some(<<>>) ELSE None

\* a step that is a lookup call
LookupStep ==
    /\ returned' # returned
    /\ Len(returned'.call) > 0
    /\ returned'.call[1] \in {"get_entity_info", "find_path", "get_subgraph",
                              "visualize_entity_direct_relations"}

\* C20: for an id that is no node, get_entity_info, get_subgraph and the ego
\* view return None and find_path returns [], none of them raises, and the
\* call leaves the graph and its metadata as they were.
C20_LookupMisses ==
    /\ []MissReturnsNothing
    /\ [][LookupStep =>
             /\ graph' = graph
             /\ entity_metadata' = entity_metadata
             /\ relation_metadata' = relation_metadata]_vars

\* C20 witness: get_subgraph missed on a graph that has nodes and an edge
C20_Witness ==
    /\ LastCall("get_subgraph")
    /\ ~has_node(graph, returned.call[2])
    /\ returned.value = None
    /\ graph.edges # <<>>

(***************************************************************************)
(* Claim on the graph get_subgraph returns, kept and used by the caller.   *)
(***************************************************************************)
\* an add_entity or add_relation call on the kept subgraph
SubgraphCallStep == subgraph_calls' = subgraph_calls + 1

\* an add_entity or add_relation call on the source while a subgraph is kept
SourceCallStep ==
    /\ subgraph # None
    /\ subgraph' # None
    /\ Len(entity_calls') + Len(relation_calls') > Len(entity_calls) + Len(relation_calls)

\* C18: a graph returned by get_subgraph is an independent copy: an
\* add_entity or add_relation on it leaves the source's nodes, edges, edge
\* relation lists, counts and metadata unchanged, and an add_entity or
\* add_relation on the source leaves the subgraph unchanged.
C18_SubgraphIsIndependent ==
    /\ [][SubgraphCallStep =>
             /\ graph' = graph
             /\ entity_metadata' = entity_metadata
             /\ relation_metadata' = relation_metadata]_vars
    /\ [][SourceCallStep => subgraph' = subgraph]_vars

(***************************************************************************)
(* Claim on the lifecycle of nodes and edges.                              *)
(***************************************************************************)
\* every node and edge of g is in h, with a count and a relation list of h
\* that extend those of g
Grows(g, h) ==
    /\ \A i \in 1..Len(g.nodes) :
          /\ has_node(h, g.nodes[i].id)
          /\ NodeOf(h, g.nodes[i].id).count >= g.nodes[i].count
    /\ \A i \in 1..Len(g.edges) :
          /\ has_edge(h, g.edges[i].source, g.edges[i].target)
          /\ LET e == EdgeOf(h, g.edges[i].source, g.edges[i].target)
                 n == Len(g.edges[i].relations)
             IN  /\ e.count >= g.edges[i].count
                 /\ Len(e.relations) >= n
                 /\ SubSeq(e.relations, 1, n) = g.edges[i].relations

\* a from_json call
FromJsonCall ==
    /\ file_calls' = file_calls + 1
    /\ Len(returned'.call) = 2
    /\ returned'.call[1] = "from_json"

\* C21: along any sequence of add_entity and add_relation calls no node and
\* no edge is removed and no node count, edge count or edge relation list
\* shrinks; only a from_json call removes anything.
C21_LifecycleMonotone == [][~FromJsonCall => Grows(graph, graph')]_vars

\* C21 witness: a node counted twice, next to an edge with two relation types
C21_Witness ==
    /\ \E i \in 1..Len(graph.nodes) : graph.nodes[i].count >= 2
    /\ \E i \in 1..Len(graph.edges) : Len(graph.edges[i].relations) = 2

(***************************************************************************)
(* Claims on the proximity fallback of extract_relations_from_entities.    *)
(***************************************************************************)
\* rels holds a proximity-inferred triple
HasProximityTriple(rels) ==
    \E i \in 1..Len(rels) : rels[i].confidence = ProximityConfidence

\* C22: extract_relations_from_entities adds proximity-inferred triples
\* (confidence 0.5) only when the number of pattern-derived relations of the
\* document is strictly less than 30% of the number of entities; with at
\* least 30% the output holds no proximity triple.  The relations counted
\* are those in the list when the test is made; the pattern matches resolved
\* are among them, and nothing else adds a proximity triple.
C22_ProximityOnlyWhenSparse ==
    /\ [](pc \in {"start", "reverse", "proximity"} => ~HasProximityTriple(relations))
    /\ [][pc = "proximity" /\ HasProximityTriple(relations') =>
             /\ Len(relations) * 10 < Len(entities) * 3
             /\ Len(pattern_relations) * 10 < Len(entities) * 3]_vars
    /\ [][pc = "deduplicate" /\ HasProximityTriple(relations') =>
             HasProximityTriple(relations)]_vars

\* C22 witness: an output with a proximity triple for a document whose
\* patterns gave relations, fewer than 30% of its entities
C22_Witness ==
    /\ pc = "done"
    /\ HasProximityTriple(relations)
    /\ Len(pattern_relations) >= 1
    /\ Len(entities) = 10

\* the relation the type pair of e1 and e2 stands for
TypePairRelation(e1, e2) ==
    IF e1.type = "PERSON" /\ e2.type = "PERSON" THEN "associated_with"
    ELSE IF e1.type = "PERSON" /\ e2.type = "LOC" THEN "located_in"
    ELSE IF e1.type = "PERSON" /\ e2.type = "EVENT" THEN "participated_in"
    ELSE IF e1.type = "PERSON" /\ e2.type = "ORG" THEN "member_of"
    ELSE "associated_with"

\* e1 and e2 are named in one sentence of the document that has a connective
CoOccur(e1, e2) ==
    \E k \in 1..Len(SplitSentences(doc_text)) :
        LET sentence == SplitSentences(doc_text)[k]
        IN  /\ IsSubstring(Lower(e1.text), Lower(sentence))
            /\ IsSubstring(Lower(e2.text), Lower(sentence))
            /\ AnyWordIn(ConnectiveWords, sentence)

\* C23: when the fallback is triggered, the output has a confidence-0.5
\* triple for every pair of entities, of any types, that co-occur in one
\* sentence containing a connective word, its relation chosen from the type
\* pair (PERSON-PERSON associated_with, PERSON-LOC located_in, PERSON-EVENT
\* participated_in, PERSON-ORG member_of, otherwise associated_with).
C23_ProximityPairsOfAnyType ==
    (pc = "done" /\ pattern_relations = <<>>) =>
        \A i, j \in 1..Len(entities) :
            (i < j /\ CoOccur(entities[i], entities[j])) =>
                \E k \in 1..Len(relations) :
                    /\ relations[k].subject = entities[i].text
                    /\ relations[k].object = entities[j].text
                    /\ relations[k].confidence = ProximityConfidence
                    /\ relations[k].relation = TypePairRelation(entities[i], entities[j])

(***************************************************************************)
(* Claim on _find_entity.                                                  *)
(***************************************************************************)
\* the first element of the sequence ents that satisfies Test, or None
FirstEntity(ents, Test(_)) ==
    IF \E i \in 1..Len(ents) : Test(ents[i])
    THEN Some(ents[CHOOSE i \in 1..Len(ents) :
                     Test(ents[i]) /\ \A j \in 1..(i - 1) : ~Test(ents[j])])
    ELSE None

\* C24: a captured span resolves to the first entity in list order that
\* equals it case-insensitively; only if none does, to the first entity in
\* list order that contains it or is contained in it and of whose character
\* length the span covers at least 70%; otherwise to no entity.
C24_FindEntity ==
    LastCall("_find_entity") =>
        LET text == Lower(returned.call[2])
            Equals(e) == Lower(e.text) = text
            Covers(e) ==
                /\ \/ IsSubstring(text, Lower(e.text))
                   \/ IsSubstring(Lower(e.text), text)
                /\ Len(text) * 10 >= Len(e.text) * 7
        IN  returned.value =
                IF FirstEntity(entities, Equals) # None
                THEN FirstEntity(entities, Equals)
                ELSE FirstEntity(entities, Covers)

(***************************************************************************)
(* Claim on KnowledgeGraphBuilder.add_entity.                              *)
(***************************************************************************)
\* position of the first add_entity call for id with type t (0: no call)
FirstObservation(id, t) ==
    LET at == {i \in EntityCallsFor(id) : entity_calls[i].type = t}
    IN  IF at = {} THEN 0 ELSE CHOOSE i \in at : \A j \in at : i <= j

\* C25: after any sequence of KnowledgeGraphBuilder.add_entity calls, a
\* node's type is a type observed most often for its id, the one observed
\* first among those observed equally often; the node's count is the number
\* of calls for its id.
C25_BuilderMajorityType ==
    \A i \in 1..Len(builder.graph.nodes) :
        LET node == builder.graph.nodes[i]
        IN  /\ node.count = Cardinality(EntityCallsFor(node.id))
            /\ \A t \in BuilderEntityTypes :
                  /\ TypeObservations(node.id, node.type) >= TypeObservations(node.id, t)
                  /\ (t # node.type
                        /\ TypeObservations(node.id, node.type) = TypeObservations(node.id, t))
                     => FirstObservation(node.id, node.type) < FirstObservation(node.id, t)

\* C25 witness: a node whose two most observed types tie, the first observed
\* of them not being the type of the last call
C25_Witness ==
    \E i \in 1..Len(builder.graph.nodes) :
        LET node == builder.graph.nodes[i]
        IN  /\ node.count = 2
            /\ \E t \in BuilderEntityTypes :
                  /\ t # node.type
                  /\ TypeObservations(node.id, t) = 1
                  /\ TypeObservations(node.id, node.type) = 1
            /\ \E j \in EntityCallsFor(node.id) : entity_calls[j].name # node.id

(***************************************************************************)
(* Claim on add_entity calls that share a KnowledgeGraph.                  *)
(***************************************************************************)
\* no caller is inside add_entity
NoCallInFlight == \A t \in Threads : threads[t].pc = "idle"

\* count of the node id, 0 when there is none
CountOf(id) == IF has_node(graph, id) THEN NodeOf(graph, id).count ELSE 0

\* t is about to finish on what it read before another caller's write: its
\* count is not the node's any more, or the node it found missing is there
StaleWrite(t) ==
    \/ /\ threads[t].pc = "store_count"
       /\ threads[t].count # CountOf(threads[t].entity_name)
    \/ /\ threads[t].pc = "add_node"
       /\ has_node(graph, threads[t].entity_name)

\* the step is the last statement of t's call
Finishes(t) == threads[t].pc \in {"store_count", "add_node"} /\ threads'[t].pc = "idle"

\* the calls made for id that have returned
Completed(id) ==
    Cardinality(EntityCallsFor(id))
    - Cardinality({t \in Threads : threads[t].pc # "idle" /\ threads[t].entity_name = id})

\* the completed calls for id that the count of its node does not show
Lost(id) == Completed(id) - CountOf(id)

CalledIds == {Strip(n) : n \in ThreadEntityNames}

\* C26: add_entity is an unguarded read-modify-write.  When the calls are
\* serialized, the count of a node is the number of calls made for its id
\* that have returned.  When they are not, a call that finishes after
\* another call wrote between its read (or its membership test) and its
\* write loses an increment: the count falls behind the number of calls that
\* have returned and never catches up, so that it ends smaller; it is never
\* larger.
C26_UnguardedReadModifyWrite ==
    /\ [](\A id \in CalledIds :
            /\ Lost(id) >= 0
            /\ serialized => Lost(id) = 0)
    /\ [][\A id \in CalledIds : Lost(id) > 0 => Lost(id)' > 0]_vars
    /\ [][\A t \in Threads, id \in CalledIds :
            (threads[t].entity_name = id /\ StaleWrite(t) /\ Finishes(t)) =>
                /\ ~serialized
                /\ Lost(id)' > 0]_vars

\* C26 witness: two calls for one id were made without a lock, both
\* returned, and the node counts one
C26_Witness ==
    /\ ~serialized
    /\ NoCallInFlight
    /\ Cardinality(EntityCallsFor(<<"A">>)) = 2
    /\ CountOf(<<"A">>) = 1

(***************************************************************************)
(* Claim on KnowledgeGraph.build_from_dataframe.                           *)
(***************************************************************************)
\* C27: when the documents of a data frame are merged into the graph, all
\* entities and all relations of one document are merged before any entity
\* or relation of the next document is merged.
C27_DocumentByDocument ==
    \A i, j \in 1..Len(merged) : i < j => merged[i] <= merged[j]


----------------------------------------------------------------------------
\* what a stage needs and does not find (lines 73, 91, 122, 157, 200)
PreconditionAbsent(stage) ==
    CASE stage = "preprocess" -> df = None
      [] stage = "extract_entities" -> ~HasColumn(df, "normalized_text")
      [] stage = "extract_relations" -> ~HasColumn(df, "entities")
      [] stage = "build_knowledge_graph" -> ~HasColumn(df, "relations")
      [] stage = "visualize_graph" -> graph.nodes = <<>>
      [] OTHER -> FALSE

\* the step is a direct call of the stage
DirectCall(stage) ==
    /\ running = 0
    /\ running' = 0
    /\ returned' # returned
    /\ returned'.call = <<stage>>

SixStages ==
    <<"load_data", "preprocess", "extract_entities", "extract_relations",
      "build_knowledge_graph", "visualize_graph">>

----------------------------------------------------------------------------
\* C29: get_statistics, and to_json which embeds it, return without raising
\* for every graph reachable through the public API, the graph with zero
\* nodes included.
C29_StatisticsNeverRaise ==
    (LastCall("get_statistics") \/ LastCall("to_json")) => returned.raised = "None"

\* C30: the full-graph view and the hub view complete without error for every
\* graph with at least one node, graphs in which every node has degree 0
\* included.
C30_ViewsNeverRaise ==
    ((LastCall("visualize_from_knowledge_graph") \/ LastCall("visualize_hub_network"))
        /\ graph.nodes # <<>>) => returned.raised = "None"

====
